---- MODULE Spec2Model ----
(***************************************************************************)
(* Model of the paged memory manager of zyos (paging.c, kmem.c).           *)
(*                                                                         *)
(* Physical memory is an array of 4 KiB frames.  A page table page holds   *)
(* TableEntries entries (512 in the kernel); an entry is the integer       *)
(* paddr | flags exactly as in the code.  A virtual address is split into  *)
(* four table indices of the same width at every level.                    *)
(* Every kernel operation is one action that runs the whole function,      *)
(* threading a machine record S through the calls it makes.                *)
(***************************************************************************)
EXTENDS Integers, Sequences, FiniteSets, TLC

\* ------------------------------------------------------------------ bounds
TableEntries == 4      \* entries of one page table page (512 in the kernel)
NFrames      == 26     \* 4 KiB frames of physical memory (pfdb.count)
MaxOps       == 5      \* kernel calls made after page_init
MaxRegions   == 3      \* records of a memory map handed to normalize
MaxAddr      == 3      \* pages spanned by the records handed to normalize

\* --------------------------------------------------------- paging.h
PAGE_SIZE       == 4096
PAGE_SIZE_LARGE == TableEntries * PAGE_SIZE
PAGE_SIZE_HUGE  == TableEntries * PAGE_SIZE_LARGE
PGSPAN_PML4E    == TableEntries * PAGE_SIZE_HUGE

PF_PRESENT == 1
PF_RW      == 2
PF_PWT     == 8
PF_PCD     == 16
PF_PS      == 128
PF_GLOBAL  == 256
PF_SYSTEM  == 512
PGMASK_OFFSET == 1023

HasFlag(e, f) == (e \div f) % 2 = 1

PML4E(a) == (a \div PGSPAN_PML4E) % TableEntries
PDPTE(a) == (a \div PAGE_SIZE_HUGE) % TableEntries
PDE(a)   == (a \div PAGE_SIZE_LARGE) % TableEntries
PTE(a)   == (a \div PAGE_SIZE) % TableEntries

PGPTR(pte)        == pte - (pte % (PGMASK_OFFSET + 1))
PTE_TO_PADDR(pte) == pte - (pte % (PGMASK_OFFSET + 1))

\* --------------------------------------------------------- pmap.h
PMEMTYPE_USABLE   == 1
PMEMTYPE_RESERVED == 2
PMEMTYPE_ACPI     == 3
PMEMTYPE_ACPI_NVS == 4
PMEMTYPE_BAD      == 5
PMEMTYPE_UNCACHED == 6
PMEMTYPE_UNMAPPED == 7

\* --------------------------------------------------------- paging.c
PFN_INVALID      == -1      \* (uint32_t)-1
PFTYPE_RESERVED  == 0
PFTYPE_AVAILABLE == 1
PFTYPE_ALLOCATED == 2
CONTAINS_TABLE   == 1

Frames == 0 .. NFrames - 1
Index  == 0 .. TableEntries - 1

PF_TO_PADDR(pfn)  == pfn * PAGE_SIZE
PADDR_TO_PF(a)    == a \div PAGE_SIZE

ZeroPF == [prev |-> 0, next |-> 0, refcount |-> 0, type |-> 0]
ZeroPage == [i \in Index |-> 0]

\* The kernel page-table pool [KMEM_KERNEL_PAGETABLE, KMEM_KERNEL_PAGETABLE_END)
KMEM_KERNEL_PAGETABLE     == 1 * PAGE_SIZE
KMEM_KERNEL_PAGETABLE_END == 11 * PAGE_SIZE
KernelEnd                 == 11 * PAGE_SIZE
PfdbAddr                  == 13 * PAGE_SIZE
PfdbSize                  == 1 * PAGE_SIZE

\* The normalized physical memory map page_init works on: page 0 Unmapped,
\* the kernel image Reserved, and the region reserve_region took out of the
\* usable memory for the page frame database Reserved.
PagingMap ==
  [ region |-> << [addr |-> 0, size |-> PAGE_SIZE, type |-> PMEMTYPE_UNMAPPED],
                  [addr |-> PAGE_SIZE, size |-> KernelEnd - PAGE_SIZE,
                   type |-> PMEMTYPE_RESERVED],
                  [addr |-> KernelEnd, size |-> PfdbAddr - KernelEnd,
                   type |-> PMEMTYPE_USABLE],
                  [addr |-> PfdbAddr, size |-> PfdbSize,
                   type |-> PMEMTYPE_RESERVED],
                  [addr |-> PfdbAddr + PfdbSize,
                   size |-> NFrames * PAGE_SIZE - (PfdbAddr + PfdbSize),
                   type |-> PMEMTYPE_USABLE] >>,
    last_usable |-> NFrames * PAGE_SIZE ]

\* ------------------------------------------------------------- machine
\* A physical address can be dereferenced when the kernel identity mapping
\* covers it: page 0 is Unmapped and nothing lies beyond last_usable.
Mapped(paddr) == paddr >= PAGE_SIZE /\ paddr < NFrames * PAGE_SIZE

fatal(S)     == [S EXCEPT !.status = "fatal"]
pagefault(S) == [S EXCEPT !.status = "pagefault"]

\* ------------------------------------------------------------- pmap.c
\* uint64_t arithmetic on addresses and sizes wraps; the model's words are
\* narrower than the kernel's 64 bits.
UINT64_SPAN == 2^30
U64(x) == x % UINT64_SPAN

Region(a, s, t) == [addr |-> a, size |-> s, type |-> t]

\* Value of fed while normalize has not run.
NotFed == << Region(-1, 0, 0) >>

\* add_region
add_region(regs, addr, size, type) == Append(regs, Region(addr, size, type))

\* cmp_region
cmp_region(r1, r2) ==
  IF r1.addr > r2.addr THEN 1
  ELSE IF r1.addr < r2.addr THEN -1
  ELSE IF r1.size > r2.size THEN 1
  ELSE IF r1.size < r2.size THEN -1
  ELSE 0

\* collapse(r, term): region r is removed, the later ones move down.
collapse(regs, r) ==
  [i \in 1 .. Len(regs) - 1 |-> IF i < r THEN regs[i] ELSE regs[i + 1]]

\* insertafter(r, term) and the stores that fill the new record r + 1.
insertafter(regs, r, new) ==
  [i \in 1 .. Len(regs) + 1 |->
     IF i <= r THEN regs[i] ELSE IF i = r + 1 THEN new ELSE regs[i - 1]]

\* resort(r, term)
RECURSIVE resort(_, _)
resort(regs, r) ==
  IF r + 1 > Len(regs) THEN regs
  ELSE IF cmp_region(regs[r], regs[r + 1]) < 0 THEN regs
  ELSE resort([regs EXCEPT ![r] = regs[r + 1], ![r + 1] = regs[r]], r + 1)

\* qsort(map->region, map->count, sizeof(pmapregion_t), cmp_region): the
\* records in ascending cmp_region order.
RECURSIVE qsort(_)
qsort(regs) ==
  IF Len(regs) <= 1 THEN regs
  ELSE LET front == qsort(SubSeq(regs, 1, Len(regs) - 1))
           x     == regs[Len(regs)]
           k     == Cardinality({i \in 1 .. Len(front) :
                                   cmp_region(front[i], x) <= 0})
       IN  SubSeq(front, 1, k) \o <<x>> \o SubSeq(front, k + 1, Len(front))

Min2(a, b) == IF a < b THEN a ELSE b
Max2(a, b) == IF a > b THEN a ELSE b

\* collapse_overlaps: the loop from record curr on.  fuel bounds the number
\* of iterations; the result is Hung when the loop does not end within it.
Hung == << Region(0, 0, 0) >>

RECURSIVE collapse_from(_, _, _)
collapse_from(regs, curr, fuel) ==
  IF curr + 1 > Len(regs) THEN regs
  ELSE IF fuel = 0 THEN Hung
  ELSE IF regs[curr].size = 0 THEN collapse_from(collapse(regs, curr), curr, fuel - 1)
  ELSE
    LET c    == regs[curr]
        n    == regs[curr + 1]
        next == curr + 1
        cl   == c.addr
        cr   == U64(c.addr + c.size)
        nl   == n.addr
        nr   == U64(n.addr + n.size)
        wins == n.type > c.type
        \* next keeps the part right of curr
        trim == resort([regs EXCEPT ![next] = Region(cr, U64(nr - cr), n.type)],
                       next)
        \* curr keeps the part left of next
        cut  == [regs EXCEPT ![curr].size = U64(nl - cl)]
    IN
    IF Min2(cr, nr) <= Max2(cl, nl) THEN collapse_from(regs, curr + 1, fuel - 1)
    ELSE IF cl = nl THEN
      IF cr = nr THEN
        collapse_from(IF wins THEN collapse(regs, curr) ELSE collapse(regs, next),
                      curr, fuel - 1)
      ELSE
        collapse_from(IF wins THEN collapse(regs, curr) ELSE trim, curr, fuel - 1)
    ELSE
      IF cr = nr THEN
        collapse_from(IF wins THEN cut ELSE collapse(regs, next), curr, fuel - 1)
      ELSE IF cr < nr THEN
        collapse_from(IF wins THEN cut ELSE trim, curr, fuel - 1)
      ELSE
        collapse_from(
          IF wins
            THEN resort(insertafter(cut, next,
                                    Region(nr, U64(cr - nr), c.type)),
                        next + 1)
            ELSE collapse(regs, next),
          curr, fuel - 1)

LoopFuel(regs) == 4 * (Len(regs) + 2) * (Len(regs) + 2)

collapse_overlaps(regs) == collapse_from(regs, 1, LoopFuel(regs))

\* fill_gaps(type): the loop from record curr on.
RECURSIVE fill_from(_, _, _, _)
fill_from(regs, curr, type, fuel) ==
  IF curr + 1 > Len(regs) THEN regs
  ELSE IF fuel = 0 THEN Hung
  ELSE
    LET c   == regs[curr]
        n   == regs[curr + 1]
        cr  == U64(c.addr + c.size)
        nl  == n.addr
        gap == U64(nl - cr)
    IN
    IF cr = nl THEN fill_from(regs, curr + 1, type, fuel - 1)
    ELSE IF c.type = type
      THEN fill_from([regs EXCEPT ![curr].size = U64(c.size + gap)],
                     curr, type, fuel - 1)
    ELSE IF n.type = type
      THEN fill_from([regs EXCEPT ![curr + 1] =
                        Region(cr, U64(n.size + gap), n.type)],
                     curr, type, fuel - 1)
    ELSE fill_from(insertafter(regs, curr, Region(cr, gap, type)),
                   curr, type, fuel - 1)

fill_gaps(regs, type) ==
  IF regs = Hung THEN Hung ELSE fill_from(regs, 1, type, LoopFuel(regs))

\* consolidate_neighbors: the loop from record curr on.
RECURSIVE consolidate_from(_, _)
consolidate_from(regs, curr) ==
  IF curr + 1 > Len(regs) THEN regs
  ELSE IF regs[curr].type = regs[curr + 1].type
    THEN consolidate_from(
           collapse([regs EXCEPT ![curr].size =
                       U64(regs[curr].size + regs[curr + 1].size)],
                    curr + 1),
           curr)
  ELSE consolidate_from(regs, curr + 1)

\* consolidate_neighbors that merges nothing
consolidate_neighbors_off(regs) == regs

consolidate_neighbors(regs) == consolidate_from(regs, 1)

\* update_last_usable that stops at the first Usable region from the front
update_last_usable_first(regs) ==
  LET us == {i \in 1 .. Len(regs) : regs[i].type = PMEMTYPE_USABLE}
  IN  IF us = {} THEN 0
      ELSE LET i == CHOOSE j \in us : \A k \in us : j <= k
           IN  U64(regs[i].addr + regs[i].size)

\* update_last_usable
update_last_usable(regs) ==
  LET us == {i \in 1 .. Len(regs) : regs[i].type = PMEMTYPE_USABLE}
  IN  IF us = {} THEN 0
      ELSE LET i == CHOOSE j \in us : \A k \in us : k <= j
           IN  U64(regs[i].addr + regs[i].size)

\* normalize.  A map is [region, last_usable]; count is Len(region).
normalize(regs) ==
  LET out == consolidate_neighbors(
               fill_gaps(collapse_overlaps(qsort(regs)), PMEMTYPE_RESERVED))
  IN  [region |-> out, last_usable |-> update_last_usable(out)]

\* pmap_init's regions, in the model's scale: video memory lies inside the
\* kernel's reserved low memory.
KMEM_VIDEO            == 2 * PAGE_SIZE
KMEM_VIDEO_SIZE       == 1 * PAGE_SIZE
KMEM_KERNEL_IMAGE_END == 11 * PAGE_SIZE

\* pmap_init without the call of normalize
pmap_init_appends(M) ==
  [region |-> add_region(add_region(add_region(M.region,
      KMEM_VIDEO, KMEM_VIDEO_SIZE, PMEMTYPE_UNCACHED),
      0, KMEM_KERNEL_IMAGE_END, PMEMTYPE_RESERVED),
      0, PAGE_SIZE, PMEMTYPE_UNMAPPED),
   last_usable |-> M.last_usable]

\* pmap_init, from the table the boot code filled.  M = [region, last_usable].
pmap_init(M) ==
  normalize(add_region(add_region(add_region(M.region,
      KMEM_VIDEO, KMEM_VIDEO_SIZE, PMEMTYPE_UNCACHED),
      0, KMEM_KERNEL_IMAGE_END, PMEMTYPE_RESERVED),
      0, PAGE_SIZE, PMEMTYPE_UNMAPPED))

\* pmap_add
pmap_add(M, init, addr, size, type) ==
  LET regs == add_region(M.region, addr, size, type)
  IN  IF init THEN normalize(regs) ELSE [M EXCEPT !.region = regs]

\* ------------------------------------------------------------- kmem.c
get_pdflags(memtype) ==
  IF memtype \in {PMEMTYPE_ACPI_NVS, PMEMTYPE_UNCACHED}
    THEN PF_PRESENT + PF_GLOBAL + PF_SYSTEM + PF_RW + PF_PS + PF_PWT + PF_PCD
  ELSE IF memtype \in {PMEMTYPE_BAD, PMEMTYPE_UNMAPPED} THEN 0
  ELSE PF_PRESENT + PF_GLOBAL + PF_SYSTEM + PF_RW + PF_PS

get_ptflags(memtype) ==
  IF memtype \in {PMEMTYPE_ACPI_NVS, PMEMTYPE_UNCACHED}
    THEN PF_PRESENT + PF_GLOBAL + PF_SYSTEM + PF_RW + PF_PWT + PF_PCD
  ELSE IF memtype \in {PMEMTYPE_BAD, PMEMTYPE_UNMAPPED} THEN 0
  ELSE PF_PRESENT + PF_GLOBAL + PF_SYSTEM + PF_RW

\* K = [mem, vnext, vterm, status, ret]
alloc_page(K) ==
  IF K.status # "ok" THEN K
  ELSE IF K.vnext >= K.vterm THEN fatal(K)
  ELSE [K EXCEPT !.vnext = @ + PAGE_SIZE,
                 !.ret = K.vnext + PF_SYSTEM + PF_PRESENT + PF_RW]

\* "if (t->entry[i] == 0) t->entry[i] = alloc_page(pt);" then PGPTR of it
kmem_child(K, tbl, idx) ==
  IF K.status # "ok" THEN K
  ELSE IF K.mem[PADDR_TO_PF(tbl)][idx] = 0
    THEN LET A == alloc_page(K) IN
         IF A.status # "ok" THEN A
         ELSE [A EXCEPT !.mem[PADDR_TO_PF(tbl)][idx] = A.ret,
                        !.ret = PGPTR(A.ret)]
  ELSE [K EXCEPT !.ret = PGPTR(K.mem[PADDR_TO_PF(tbl)][idx])]

kmem_leaf(K, idx, val) ==
  IF K.status # "ok" THEN K
  ELSE [K EXCEPT !.mem[PADDR_TO_PF(K.ret)][idx] = val]

create_huge_page(K, proot, addr, memtype) ==
  kmem_leaf(kmem_child(K, proot, PML4E(addr)),
            PDPTE(addr), addr + get_pdflags(memtype))

create_large_page(K, proot, addr, memtype) ==
  kmem_leaf(kmem_child(kmem_child(K, proot, PML4E(addr)),
                       kmem_child(K, proot, PML4E(addr)).ret, PDPTE(addr)),
            PDE(addr), addr + get_pdflags(memtype))

create_small_page(K, proot, addr, memtype) ==
  LET K1 == kmem_child(K, proot, PML4E(addr))
      K2 == kmem_child(K1, K1.ret, PDPTE(addr))
      K3 == kmem_child(K2, K2.ret, PDE(addr))
  IN  kmem_leaf(K3, PTE(addr), addr + get_ptflags(memtype))

RECURSIVE map_pages(_, _, _, _, _)
map_pages(K, proot, addr, term, memtype) ==
  IF addr >= term \/ K.status # "ok" THEN K
  ELSE IF addr % PAGE_SIZE_HUGE = 0 /\ term - addr >= PAGE_SIZE_HUGE
    THEN map_pages(create_huge_page(K, proot, addr, memtype), proot,
                   addr + PAGE_SIZE_HUGE, term, memtype)
  ELSE IF addr % PAGE_SIZE_LARGE = 0 /\ term - addr >= PAGE_SIZE_LARGE
    THEN map_pages(create_large_page(K, proot, addr, memtype), proot,
                   addr + PAGE_SIZE_LARGE, term, memtype)
  ELSE map_pages(create_small_page(K, proot, addr, memtype), proot,
                 addr + PAGE_SIZE, term, memtype)

map_region(K, proot, map, region) ==
  IF region.type \in {PMEMTYPE_UNMAPPED, PMEMTYPE_BAD} THEN K
  ELSE IF region.type = PMEMTYPE_RESERVED /\ region.addr >= map.last_usable
    THEN K
  ELSE map_pages(K, proot, region.addr, region.addr + region.size, region.type)

RECURSIVE kmem_regions(_, _, _, _)
kmem_regions(K, proot, map, r) ==
  IF r > Len(map.region) THEN K
  ELSE kmem_regions(map_region(K, proot, map, map.region[r]), proot, map, r + 1)

\* kmem_init: the pool is zeroed, the root is its first page.
kmem_init(map) ==
  kmem_regions([mem |-> [f \in Frames |-> ZeroPage],
                vnext |-> KMEM_KERNEL_PAGETABLE + PAGE_SIZE,
                vterm |-> KMEM_KERNEL_PAGETABLE_END,
                status |-> "ok", ret |-> 0],
               KMEM_KERNEL_PAGETABLE, map, 1)

\* ----------------------------------------------------------- paging.c
\* page_init, lines 136-175: the free list over the Usable regions.
\* D = [pf, avail, head, tail]
link_region(D, region) ==
  IF region.type # PMEMTYPE_USABLE THEN D
  ELSE LET pfn0 == region.addr \div PAGE_SIZE
           pfnN == (region.addr + region.size) \div PAGE_SIZE
           pf1  == [f \in DOMAIN D.pf |->
                      IF f >= pfn0 /\ f < pfnN
                        THEN [D.pf[f] EXCEPT !.prev = f - 1, !.next = f + 1,
                                             !.type = PFTYPE_AVAILABLE]
                        ELSE D.pf[f]]
           pf2  == IF D.tail = PFN_INVALID THEN pf1
                   ELSE [pf1 EXCEPT ![D.tail].next = pfn0]
           pf3  == [pf2 EXCEPT ![pfn0].prev = D.tail]
           pf4  == [pf3 EXCEPT ![pfnN - 1].next = PFN_INVALID]
       IN  [pf    |-> pf4,
            avail |-> D.avail + (pfnN - pfn0),
            head  |-> IF D.tail = PFN_INVALID THEN pfn0 ELSE D.head,
            tail  |-> pfnN - 1]

RECURSIVE link_regions(_, _, _)
link_regions(D, map, r) ==
  IF r > Len(map.region) THEN D
  ELSE link_regions(link_region(D, map.region[r]), map, r + 1)

page_init_pfdb(map) ==
  link_regions([pf |-> [f \in Frames |-> ZeroPF], avail |-> 0,
                head |-> PFN_INVALID, tail |-> PFN_INVALID], map, 1)

\* sizeof(pf_t)
SIZEOF_PF_T == 32

\* "paddr += (1 << alignshift) - 1; paddr >>= alignshift; paddr <<=
\* alignshift", with the alignment given as a size
ALIGN_UP(a, align) == ((a + align - 1) \div align) * align

\* reserve_region, from region r on: the map after pmap_add and the address
\* it returns (0 for NULL).  page_init runs after pmap_init, so pmap_add
\* normalizes.
RECURSIVE reserve_region(_, _, _, _)
reserve_region(M, size, align, r) ==
  IF r > Len(M.region) THEN [map |-> M, ret |-> 0]
  ELSE IF \/ M.region[r].type # PMEMTYPE_USABLE
          \/ M.region[r].size < size
          \/ ALIGN_UP(M.region[r].addr, align) + size
                > M.region[r].addr + M.region[r].size
    THEN reserve_region(M, size, align, r + 1)
  ELSE [map |-> pmap_add(M, TRUE, ALIGN_UP(M.region[r].addr, align), size,
                         PMEMTYPE_RESERVED),
        ret |-> ALIGN_UP(M.region[r].addr, align)]

\* page_init after reserve_region has returned R for the database of count
\* frames: the array starts zeroed and the loop links the Usable regions of
\* the map as pmap_add left it.  The array has room beyond count frames,
\* its size being rounded up; the model keeps one frame of that room.
page_init_link(R, count, size) ==
  IF R.ret = 0 THEN [status |-> "fatal", map |-> R.map]
  ELSE [status |-> "ok", map |-> R.map, addr |-> R.ret, size |-> size,
        count |-> count,
        pfdb |-> link_regions([pf |-> [f \in 0 .. count |-> ZeroPF],
                               avail |-> 0, head |-> PFN_INVALID,
                               tail |-> PFN_INVALID], R.map, 1)]

\* page_init() on the memory map M
page_init(M) ==
  IF M.last_usable = 0 THEN [status |-> "fatal", map |-> M]
  ELSE page_init_link(
         reserve_region(M, ALIGN_UP((M.last_usable \div PAGE_SIZE) * SIZEOF_PF_T,
                                    PAGE_SIZE_LARGE),
                        PAGE_SIZE_LARGE, 1),
         M.last_usable \div PAGE_SIZE,
         ALIGN_UP((M.last_usable \div PAGE_SIZE) * SIZEOF_PF_T,
                  PAGE_SIZE_LARGE))

\* Outcomes of an access outside the page frame array (pfdb.pf[PFN_INVALID]):
\* the access faults, or it lands in memory that is not part of the database.
\* UB_FAULT stands for the fault, any other value for the word that is read:
\* PFN_INVALID, the number of a Reserved frame or the number of a usable one.
UB_FAULT   == -2
StrayWords == {PFN_INVALID, 0, NFrames - 1}
UBOutcomes == {UB_FAULT} \cup StrayWords

\* pfalloc.  S.ret is the frame number of the returned record.
pfalloc(S, ub) ==
  IF S.status # "ok" THEN S
  ELSE IF S.avail = 0 THEN fatal(S)
  ELSE IF S.head = PFN_INVALID
    \* PFN_TO_PF(PFN_INVALID) and pfdb.pf[PFN_INVALID].next lie outside the
    \* array: the read faults, or head becomes a stray value and the page of
    \* the stray record (frame 0xFFFFFFFF) faults when pgalloc zeroes it.
    THEN [pagefault(S) EXCEPT !.ubhit = TRUE,
             !.head = IF ub = UB_FAULT THEN S.head ELSE ub,
             !.pf = IF ub \in Frames
                      THEN [S.pf EXCEPT ![ub].prev = PFN_INVALID] ELSE S.pf]
  ELSE LET f   == S.head
           nh  == S.pf[f].next
           pf1 == IF nh # PFN_INVALID
                    THEN [S.pf EXCEPT ![nh].prev = PFN_INVALID] ELSE S.pf
       IN  [S EXCEPT !.head = nh,
                     !.pf = [pf1 EXCEPT ![f] = [ZeroPF EXCEPT !.refcount = 1,
                                                  !.type = PFTYPE_ALLOCATED]],
                     !.nalloc = @ + 1,
                     !.ret = f]

\* pffree without "pf->type = PFTYPE_AVAILABLE": the zeroed record goes on
\* the free list with the type memzero left.
pffree_no_type(S, f, ub) ==
  IF S.status # "ok" THEN S
  ELSE IF S.pf[f].type # PFTYPE_ALLOCATED THEN fatal(S)
  ELSE LET pf1 == [S.pf EXCEPT ![f] = [ZeroPF EXCEPT !.prev = PFN_INVALID,
                                         !.next = S.head]]
       IN  IF S.head = PFN_INVALID
             THEN IF ub = UB_FAULT
                    THEN [pagefault(S) EXCEPT !.pf = pf1, !.ubhit = TRUE]
                    ELSE [S EXCEPT !.pf = pf1, !.head = f,
                                   !.avail = @ + 1, !.ubhit = TRUE,
                                   !.nfree = @ + 1]
             ELSE [S EXCEPT !.pf = [pf1 EXCEPT ![S.head].prev = f],
                            !.head = f, !.avail = @ + 1, !.nfree = @ + 1]

\* pffree(pf) for the record of frame f.
pffree(S, f, ub) ==
  IF S.status # "ok" THEN S
  ELSE IF S.pf[f].type # PFTYPE_ALLOCATED THEN fatal(S)
  ELSE LET pf1 == [S.pf EXCEPT ![f] = [ZeroPF EXCEPT !.prev = PFN_INVALID,
                                         !.next = S.head,
                                         !.type = PFTYPE_AVAILABLE]]
       IN  IF S.head = PFN_INVALID
             \* pfdb.pf[PFN_INVALID].prev = pfn writes outside the array
             THEN IF ub = UB_FAULT
                    THEN [pagefault(S) EXCEPT !.pf = pf1, !.ubhit = TRUE]
                    ELSE [S EXCEPT !.pf = pf1, !.head = f,
                                   !.avail = @ + 1, !.ubhit = TRUE,
                                   !.nfree = @ + 1]
             ELSE [S EXCEPT !.pf = [pf1 EXCEPT ![S.head].prev = f],
                            !.head = f, !.avail = @ + 1, !.nfree = @ + 1]

\* pgalloc.  S.ret is the physical address of the zeroed page.
pgalloc(S, ub) ==
  LET A == pfalloc(S, ub) IN
  IF A.status # "ok" THEN A
  ELSE [A EXCEPT !.mem[A.ret] = ZeroPage, !.ret = PF_TO_PADDR(A.ret)]

\* pgfree with "pf->refcount-- == 0" in place of "--pf->refcount == 0"
pgfree_post_decrement(S, paddr, ub) ==
  IF S.status # "ok" THEN S
  ELSE LET f == PADDR_TO_PF(paddr) IN
    IF f \notin Frames THEN [pagefault(S) EXCEPT !.ubhit = TRUE]
    ELSE LET rc == (S.pf[f].refcount - 1) % 65536
             S1 == [S EXCEPT !.pf[f].refcount = rc]
         IN  IF S.pf[f].refcount = 0 THEN pffree(S1, f, ub) ELSE S1

\* pgfree(paddr)
pgfree(S, paddr, ub) ==
  IF S.status # "ok" THEN S
  ELSE LET f == PADDR_TO_PF(paddr) IN
    IF f \notin Frames THEN [pagefault(S) EXCEPT !.ubhit = TRUE]
    ELSE LET rc == (S.pf[f].refcount - 1) % 65536
             S1 == [S EXCEPT !.pf[f].refcount = rc]
         IN  IF rc = 0 THEN pffree(S1, f, ub) ELSE S1

\* One level of the table walk of add_pte: lines 294-302 for the PML4
\* (top = TRUE, the only level that looks at PF_SYSTEM), 305-309 and 312-316
\* for the PDPT and the PDT.  S.ret is the child table.
pte_child(S, tbl, idx, top, ub) ==
  IF S.status # "ok" THEN S
  ELSE IF ~Mapped(tbl) THEN pagefault(S)
  ELSE LET e == S.mem[PADDR_TO_PF(tbl)][idx] IN
    IF e = 0
      THEN LET A == pgalloc(S, ub) IN
           IF A.status # "ok" THEN A
           ELSE [A EXCEPT
                   !.mem[PADDR_TO_PF(tbl)][idx] = A.ret + PF_PRESENT + PF_RW,
                   !.added = Append(@, A.ret),
                   !.ninterior = @ + 1,
                   !.tables = @ \cup {A.ret},
                   !.sys_write = @ \/ A.sysw,
                   !.ret = PGPTR(A.ret + PF_PRESENT + PF_RW)]
    ELSE IF top /\ HasFlag(e, PF_SYSTEM)
      THEN [fatal(S) EXCEPT !.sys_hit = TRUE]
    ELSE [S EXCEPT !.sysw = @ \/ HasFlag(e, PF_SYSTEM),
                   !.sys_hit = @ \/ HasFlag(e, PF_SYSTEM),
                   !.ret = PGPTR(e)]

\* ptt->entry[pte] = paddr | pflags, line 320
pte_leaf(S, idx, val) ==
  IF S.status # "ok" THEN S
  ELSE IF ~Mapped(S.ret) THEN pagefault(S)
  ELSE [S EXCEPT !.mem[PADDR_TO_PF(S.ret)][idx] = val,
                 !.sys_write = @ \/ S.sysw]

\* ghost: T is S after the write of the leaf of vaddr in the table of h;
\* chg collects the addresses whose leaf in the active table has changed
leaf_changed(S, T, h, vaddr) ==
  IF T.status = "ok" /\ h = T.active_pt /\ T.mem # S.mem
    THEN [T EXCEPT !.chg = @ \cup {vaddr}]
    ELSE T

RECURSIVE add_pte(_, _, _, _, _, _, _, _)
RECURSIVE self_map(_, _, _, _, _, _)

\* add_pte.  d is the depth of the call (1 for the call made by page_alloc).
add_pte(S, h, vaddr, paddr, pflags, addflags, d, ub) ==
  IF S.status # "ok" THEN S
  ELSE IF addflags = CONTAINS_TABLE /\ vaddr >= S.pt[h].vterm THEN fatal(S)
  ELSE
    LET S0 == [S EXCEPT !.added = <<>>, !.sysw = FALSE,
                        !.depth = IF d > @ THEN d ELSE @]
        S1 == pte_child(S0, S.pt[h].proot, PML4E(vaddr), TRUE, ub)
        S2 == pte_child(S1, S1.ret, PDPTE(vaddr), FALSE, ub)
        S3 == pte_child(S2, S2.ret, PDE(vaddr), FALSE, ub)
        S4 == leaf_changed(S3, pte_leaf(S3, PTE(vaddr), paddr + pflags),
                           h, vaddr)
    IN  self_map(S4, h, S4.added, 1, d, ub)

\* the loop of lines 323-326 over added[0 .. count-1]
self_map(S, h, added, i, d, ub) ==
  IF S.status # "ok" \/ i > Len(added) THEN S
  ELSE LET N == add_pte(S, h, S.pt[h].vnext, added[i], PF_PRESENT + PF_RW,
                        CONTAINS_TABLE, d + 1, ub)
       IN  IF N.status # "ok" THEN N
           ELSE self_map([N EXCEPT !.pt[h].vnext = @ + PAGE_SIZE],
                         h, added, i + 1, d, ub)

\* remove_pte.  S.ret is the physical address the cleared entry pointed at.
remove_pte(S, h, vaddr) ==
  IF S.status # "ok" THEN S
  ELSE LET pml4t == S.pt[h].proot IN
  IF ~Mapped(pml4t) THEN pagefault(S)
  ELSE LET e4   == S.mem[PADDR_TO_PF(pml4t)][PML4E(vaddr)]
           pdpt == PGPTR(e4) IN
  IF ~Mapped(pdpt) THEN pagefault(S)
  ELSE LET e3  == S.mem[PADDR_TO_PF(pdpt)][PDPTE(vaddr)]
           pdt == PGPTR(e3) IN
  IF ~Mapped(pdt) THEN pagefault(S)
  ELSE LET e2  == S.mem[PADDR_TO_PF(pdt)][PDE(vaddr)]
           ptt == PGPTR(e2) IN
  IF ~Mapped(ptt) THEN pagefault(S)
  ELSE LET e1 == S.mem[PADDR_TO_PF(ptt)][PTE(vaddr)] IN
       [S EXCEPT !.mem[PADDR_TO_PF(ptt)][PTE(vaddr)] = 0,
                 !.inv = IF h = S.active_pt THEN @ \cup {vaddr} ELSE @,
                 !.chg = IF h = S.active_pt /\ e1 # 0 THEN @ \cup {vaddr}
                         ELSE @,
                 !.sys_clear = @ \/ HasFlag(e4, PF_SYSTEM)
                                 \/ HasFlag(e3, PF_SYSTEM)
                                 \/ HasFlag(e2, PF_SYSTEM),
                 !.ret = PGPTR(e1)]

RECURSIVE pgfree_recurse(_, _, _, _)
RECURSIVE pgfree_entries(_, _, _, _, _)

\* the two loops of pgfree_recurse, from entry e on
pgfree_entries(S, page, level, e, ub) ==
  IF S.status # "ok" \/ e >= TableEntries THEN S
  ELSE IF ~Mapped(page) THEN pagefault(S)
  ELSE LET ent == S.mem[PADDR_TO_PF(page)][e] IN
    IF level = 1
      THEN LET paddr == PTE_TO_PADDR(ent) IN
           IF paddr = 0 THEN pgfree_entries(S, page, level, e + 1, ub)
           ELSE IF PADDR_TO_PF(paddr) \notin Frames
             THEN [pagefault(S) EXCEPT !.ubhit = TRUE]
           ELSE IF S.pf[PADDR_TO_PF(paddr)].type = PFTYPE_ALLOCATED
             THEN pgfree_entries(pgfree(S, paddr, ub), page, level, e + 1, ub)
           ELSE pgfree_entries(S, page, level, e + 1, ub)
    ELSE IF HasFlag(ent, PF_SYSTEM)
      THEN pgfree_entries(S, page, level, e + 1, ub)
    ELSE IF PGPTR(ent) = 0
      THEN pgfree_entries(S, page, level, e + 1, ub)
    ELSE pgfree_entries(pgfree_recurse(S, PGPTR(ent), level - 1, ub),
                        page, level, e + 1, ub)

pgfree_recurse(S, page, level, ub) == pgfree_entries(S, page, level, 0, ub)

ZeroPT == [proot |-> 0, vroot |-> 0, vnext |-> 0, vterm |-> 0]

pagetable_create(S, h, vaddr, size, ub) ==
  IF size % PAGE_SIZE # 0 THEN fatal(S)
  ELSE LET A == pgalloc(S, ub) IN
    IF A.status # "ok" THEN A
    ELSE LET B == [A EXCEPT !.pt[h] = [proot |-> A.ret, vroot |-> vaddr,
                                       vnext |-> vaddr + PAGE_SIZE,
                                       vterm |-> vaddr + size]]
         IN  IF ~Mapped(B.pt["kpt"].proot) THEN pagefault(B)
             ELSE [B EXCEPT !.mem[PADDR_TO_PF(A.ret)] =
                               B.mem[PADDR_TO_PF(B.pt["kpt"].proot)]]

PagesOf(lo, hi) == {a \in lo .. (hi - 1) : (a - lo) % PAGE_SIZE = 0}

pagetable_destroy(S, h, ub) ==
  IF S.pt[h].proot = 0 THEN fatal(S)
  ELSE LET R == pgfree_recurse(S, S.pt[h].proot, 4, ub) IN
    IF R.status # "ok" THEN R
    ELSE [R EXCEPT !.inv = IF h = R.active_pt
                             THEN @ \cup PagesOf(R.pt[h].vroot, R.pt[h].vterm)
                             ELSE @,
                   !.pt[h] = ZeroPT]

\* pagetable_activate; the caller's NULL is the handle "kpt"
pagetable_activate(S, h) ==
  IF S.pt[h].proot = 0 THEN fatal(S)
  ELSE [S EXCEPT !.cr3 = S.pt[h].proot, !.active_pt = h]

RECURSIVE page_alloc(_, _, _, _, _)
page_alloc(S, h, vaddr, count, ub) ==
  IF S.status # "ok" \/ count = 0 THEN S
  ELSE LET A == pgalloc(S, ub)
           B == add_pte(A, h, vaddr, A.ret, PF_PRESENT + PF_RW, 0, 1, ub)
       IN  page_alloc(B, h, vaddr + PAGE_SIZE, count - 1, ub)

RECURSIVE page_free(_, _, _, _, _)
page_free(S, h, vaddr, count, ub) ==
  IF S.status # "ok" \/ count = 0 THEN S
  ELSE LET R == remove_pte(S, h, vaddr)
           F == pgfree(R, R.ret, ub)
       IN  page_free(F, h, vaddr + PAGE_SIZE, count - 1, ub)

\* ------------------------------------------------------ interrupt.asm
Mem_IDT             == 4096     \* Mem.IDT        0x1000
Mem_ISR_Table       == 8192     \* Mem.ISR.Table  0x2000
Mem_ISR_Thunks      == 10240    \* Mem.ISR.Thunks 0x2800
IDT_Descriptor_size == 16
ISR_Thunk_Size      == 8
Segment_Kernel_Code == 16
Exception_NMI == 2
Exception_DF  == 8
Exception_TS  == 10
Exception_NP  == 11
Exception_SS  == 12
Exception_GP  == 13
Exception_PF  == 14
Exception_MC  == 18
NVectors == 256
Vectors  == 0 .. NVectors - 1

\* .PushesError, the bit mask of the exceptions that push an error code
PushesError == {Exception_DF, Exception_TS, Exception_NP, Exception_SS,
                Exception_GP, Exception_PF}

\* the addresses the two dispatcher labels are linked at
ISR_Dispatcher         == 3149824
ISR_Dispatcher_Special == 3150080
\* the ISRs the kernel installs: one that returns (isr_timer), and the ISR of
\* vector 0xFF, which halts the CPU
ISR_RETURNS == 3153920
ISR_HALTS   == 3158016

\* A quadword of memory is kept as its four 16-bit words, low word first.
QW(n)  == << n % 65536, (n \div 65536) % 65536, 0, 0 >>
QZero  == << 0, 0, 0, 0 >>

\* opcodes of ISR.Thunk.Template
OP_NOP  == 144     \* 0x90
OP_PUSH == 106     \* 0x6A  push imm8
OP_JMP  == 233     \* 0xE9  jmp rel32

\* "push imm8" pushes the immediate sign-extended to 64 bits; the integer
\* stands for the two's-complement quadword
SignExtend8(b) == IF b >= 128 THEN b - 256 ELSE b

\* .installThunk for interrupt number rcx: the template, the interrupt number
\* in the push, the distance to the dispatcher in the jmp.
installThunk(rcx) ==
  LET rdi == Mem_ISR_Thunks + ISR_Thunk_Size * (rcx + 1)   \* after movsq
      special == rcx <= 14 /\ rcx \in PushesError
      r8  == IF special THEN ISR_Dispatcher_Special ELSE ISR_Dispatcher
  IN  [nop |-> OP_NOP, push |-> OP_PUSH, imm |-> rcx % 256,
       jmp |-> OP_JMP, rel |-> r8 - rdi]

\* flags words of the IDT descriptors
GATE_INTERRUPT == 36352    \* 1000111000000000b
GATE_TRAP      == 36608    \* 1000111100000000b

\* .installDescriptor for interrupt number rcx, then .replaceSpecialStacks
installDescriptor(rcx) ==
  LET rsi == Mem_ISR_Thunks + ISR_Thunk_Size * rcx
      r8  == rsi + 1                                       \* skip the nop
  IN  [OffsetLo  |-> r8 % 65536,
       Segment   |-> Segment_Kernel_Code,
       Flags     |-> IF rcx = Exception_NMI THEN GATE_INTERRUPT + 1
                     ELSE IF rcx = Exception_DF THEN GATE_INTERRUPT + 2
                     ELSE IF rcx = Exception_MC THEN GATE_INTERRUPT + 3
                     ELSE IF rcx > 31 THEN GATE_TRAP ELSE GATE_INTERRUPT,
       OffsetMid |-> (r8 \div 65536) % 65536,
       OffsetHi  |-> 0,
       Reserved  |-> 0]

\* I = [loaded, thunk, idt, isr_table]: the three tables at 0x1000..0x2fff
interrupts_init(I) ==
  [I EXCEPT !.thunk  = [v \in Vectors |-> installThunk(v)],
            !.idt    = [v \in Vectors |-> installDescriptor(v)],
            !.loaded = TRUE]

isr_set(I, interrupt, handler) ==
  [I EXCEPT !.isr_table[interrupt] = QW(handler)]

\* the quadword at address a of the interrupt tables
ReadQword(I, a) ==
  IF a >= Mem_ISR_Table /\ a < Mem_ISR_Thunks
    THEN I.isr_table[(a - Mem_ISR_Table) \div 8]
  ELSE LET d == I.idt[(a - Mem_IDT) \div IDT_Descriptor_size]
       IN  IF (a - Mem_IDT) % IDT_Descriptor_size = 0
             THEN << d.OffsetLo, d.Segment, d.Flags, d.OffsetMid >>
             ELSE << d.OffsetHi % 65536, d.OffsetHi \div 65536,
                     d.Reserved % 65536, d.Reserved \div 65536 >>

\* The general-purpose registers in the order the dispatcher pushes them.
PushOrder == << "r15", "r14", "r13", "r12", "r11", "r10", "r9", "r8",
                "rbp", "rdi", "rsi", "rdx", "rcx", "rbx", "rax" >>
PopOrder  == << "rax", "rbx", "rcx", "rdx", "rsi", "rdi", "rbp", "r8",
                "r9", "r10", "r11", "r12", "r13", "r14", "r15" >>
GPR == {PushOrder[i] : i \in 1 .. 15}
\* registers a System V function may change
CallerSaved == {"rax", "rcx", "rdx", "rsi", "rdi", "r8", "r9", "r10", "r11"}

\* C = [regs, stack, rsp, rip, calls, state]: the CPU; the stack grows at its
\* head, [rsp + 8 * k] is stack[k + 1], rsp counts the slots in use.
push(C, x) == [C EXCEPT !.stack = << x >> \o @, !.rsp = @ + 1]

RECURSIVE push_regs(_, _, _)
push_regs(C, order, i) ==
  IF i > Len(order) THEN C
  ELSE push_regs(push(C, C.regs[order[i]]), order, i + 1)

RECURSIVE pop_regs(_, _, _)
pop_regs(C, order, i) ==
  IF i > Len(order) THEN C
  ELSE pop_regs([C EXCEPT !.regs[order[i]] = Head(C.stack),
                          !.stack = Tail(C.stack), !.rsp = @ - 1],
                order, i + 1)

\* what the CPU pushes when it takes an interrupt: SS, RSP, RFLAGS, CS, RIP
RFLAGS_VAL == 514
MXCSR_VAL  == 8064
Frame(C) == << C.rip, Segment_Kernel_Code, RFLAGS_VAL, C.rsp, 0 >>

\* iretq: RIP, CS, RFLAGS, RSP, SS are popped; RSP is counted in stack slots
\* above the bottom of the stack
iretq(C) ==
  LET rsp == C.stack[4]
      s   == SubSeq(C.stack, 6, Len(C.stack))
  IN  [C EXCEPT !.rip = C.stack[1],
                !.rsp = rsp,
                !.stack = IF rsp >= 0 /\ rsp <= Len(s)
                            THEN SubSeq(s, Len(s) - rsp + 1, Len(s)) ELSE s,
                !.state = "resumed"]

\* the ISR is called with rdi = rsp + 8, the interrupt_context on the stack
isr_call(C, isr) ==
  LET context == [regs      |-> [r \in GPR |->
                                   C.stack[1 + CHOOSE i \in 1 .. 15 :
                                                 PopOrder[i] = r]],
                  error     |-> C.stack[17],
                  interrupt |-> C.stack[18],
                  retaddr   |-> C.stack[19]]
      D == [C EXCEPT !.calls = Append(@, [isr |-> isr, context |-> context])]
  IN  IF isr = QW(ISR_HALTS) THEN [D EXCEPT !.state = "halted"]
      ELSE IF isr = QW(ISR_RETURNS)
        THEN [D EXCEPT !.regs = [r \in GPR |->
                                   IF r \in CallerSaved THEN 0 ELSE @[r]]]
      ELSE [D EXCEPT !.state = "wild"]     \* call to what is not an ISR

\* ISR.Dispatcher from .specialEntry on
specialEntry(I, C) ==
  LET C1 == push(push_regs(C, PushOrder, 3), MXCSR_VAL)
      \* .lookup
      rax == C1.stack[18]
      isr == ReadQword(I, Mem_ISR_Table + 8 * rax)
      \* .dispatch
      C2 == IF isr = QZero THEN C1
            ELSE isr_call([C1 EXCEPT !.regs["rax"] = isr[1],
                                     !.regs["rdi"] = C1.rsp - 1], isr)
      \* .done
      C3 == [C2 EXCEPT !.stack = Tail(@), !.rsp = @ - 1]
      C4 == pop_regs(C3, PopOrder, 1)
      C5 == [C4 EXCEPT !.stack = SubSeq(@, 3, Len(@)), !.rsp = @ - 2]
  IN  IF C2.state # "running" THEN C2 ELSE iretq(C5)

\* ISR.Dispatcher
Dispatcher(I, C) ==
  specialEntry(I, push_regs(push(C, 0), SubSeq(PushOrder, 1, 2), 1))

\* the special dispatcher without the exchange of interrupt number and error
DispatcherSpecial_no_swap(I, C) ==
  specialEntry(I, push_regs(C, << "r15", "r14" >>, 1))

\* ISR.Dispatcher.Special
DispatcherSpecial(I, C) ==
  LET C1  == push_regs(C, << "r15", "r14" >>, 1)
      r14 == C1.stack[3]
      r15 == C1.stack[4]
      C2  == [C1 EXCEPT !.regs["r14"] = r14, !.regs["r15"] = r15,
                        !.stack[3] = r15, !.stack[4] = r14]
  IN  specialEntry(I, C2)

\* The CPU takes interrupt v: it pushes the frame (and the error code of an
\* exception that has one), enters through the IDT gate of v, and runs the
\* code found there.
deliver(I, C0, v, haserror, e) ==
  LET C1 == [C0 EXCEPT !.stack = Frame(C0) \o @, !.rsp = @ + 5]
      C  == IF haserror THEN push(C1, e) ELSE C1
      d  == I.idt[v]
      entry == d.OffsetLo + 65536 * d.OffsetMid
      t  == (entry - Mem_ISR_Thunks) \div ISR_Thunk_Size
      o  == (entry - Mem_ISR_Thunks) % ISR_Thunk_Size
  IN  IF ~(entry >= Mem_ISR_Thunks /\ t \in Vectors /\ o = 1
           /\ I.thunk[t].push = OP_PUSH /\ I.thunk[t].jmp = OP_JMP)
        THEN [C EXCEPT !.state = "wild"]
      ELSE LET P == push(C, SignExtend8(I.thunk[t].imm))
               target == Mem_ISR_Thunks + ISR_Thunk_Size * (t + 1)
                         + I.thunk[t].rel
           IN  IF target = ISR_Dispatcher
                 THEN Dispatcher(I, [P EXCEPT !.via = "common"])
               ELSE IF target = ISR_Dispatcher_Special
                 THEN DispatcherSpecial(I, [P EXCEPT !.via = "special"])
               ELSE [P EXCEPT !.state = "wild"]

\* fatal: "int 0xff", then "ret" when the interrupt returns
FATAL_VECTOR == 255
fatal_call(I, C0) ==
  LET C == deliver(I, C0, FATAL_VECTOR, FALSE, 0)
  IN  IF C.state = "resumed" THEN [C EXCEPT !.state = "returned"] ELSE C

\* --------------------------------- interrupt.asm: isr_set, by instruction
\* I is the record of interrupts_init with the CPU that runs isr_set: I.cpu
\* with rdi, rsi and the stack, I.iflag the interrupt flag of RFLAGS, I.pc the
\* instruction of isr_set to run next ("out" outside isr_set).
Flags(iflag) == IF iflag THEN RFLAGS_VAL ELSE RFLAGS_VAL - 2^9
FlagIF(x) == (x \div 2^9) % 2 = 1

\* "pushf"
isr_set_pushf(I) == [I EXCEPT !.cpu = push(@, Flags(I.iflag)), !.pc = "cli"]

\* "cli"
isr_set_cli(I) == [I EXCEPT !.iflag = FALSE, !.pc = "shl"]

\* "shl rdi, 3"
isr_set_shl(I) == [I EXCEPT !.cpu.regs["rdi"] = @ * 8, !.pc = "add"]

\* "add rdi, Mem.ISR.Table"
isr_set_add(I) ==
  [I EXCEPT !.cpu.regs["rdi"] = @ + Mem_ISR_Table, !.pc = "mov"]

\* "mov [rdi], rsi": one aligned 8-byte store
isr_set_mov(I) ==
  [I EXCEPT !.isr_table[(I.cpu.regs["rdi"] - Mem_ISR_Table) \div 8] =
              QW(I.cpu.regs["rsi"]),
            !.pc = "popf"]

\* "popf"
isr_set_popf(I) ==
  [I EXCEPT !.iflag = FlagIF(Head(I.cpu.stack)),
            !.cpu.stack = Tail(@), !.cpu.rsp = @ - 1,
            !.pc = "ret"]

\* "ret"
isr_set_ret(I) ==
  [I EXCEPT !.cpu.stack = Tail(@), !.cpu.rsp = @ - 1, !.pc = "out"]

\* ------------------------------------------- interrupt.asm: the 8259 PICs
\* A 32-bit register is its bits 0..31; al, cl and dl are numbers 0..255.
Bits32 == 0 .. 31
Byte(x) == x % 256

\* "mov edx, 1"
mov_edx_1 == [i \in Bits32 |-> IF i = 0 THEN 1 ELSE 0]

\* "shl edx, cl": the CPU masks the count of a 32-bit shift to 5 bits
shl(edx, cl) ==
  [i \in Bits32 |-> IF i >= cl % 32 THEN edx[i - (cl % 32)] ELSE 0]

\* "not edx"
not(edx) == [i \in Bits32 |-> 1 - edx[i]]

\* dl: the low byte of edx
RECURSIVE dl_from(_, _)
dl_from(edx, i) == IF i > 7 THEN 0 ELSE edx[i] * 2^i + dl_from(edx, i + 1)
dl(edx) == dl_from(edx, 0)

Bit(x, i) == (x \div 2^i) % 2

\* "and al, dl" and "or al, dl"
RECURSIVE and_from(_, _, _)
and_from(al, d, i) ==
  IF i > 7 THEN 0 ELSE Bit(al, i) * Bit(d, i) * 2^i + and_from(al, d, i + 1)
and(al, d) == and_from(al, d, 0)
or(al, d) == al + d - and(al, d)

\* P = [rdi, rcx, edx, al, master, slave]: the registers the two functions
\* use and the mask registers of the PICs behind ports 0x21 and 0xa1.

\* irq_enable.master: mask ~(1 << cl) applied to port 0x21
irq_enable_master(P) ==
  LET edx == not(shl(mov_edx_1, Byte(P.rcx)))
      al  == and(P.master, dl(edx))
  IN  [P EXCEPT !.edx = edx, !.al = al, !.master = al]

\* irq_enable.slave after "call irq_enable": "sub cl, 8" works on the rcx
\* the call left, then mask ~(1 << cl) is applied to port 0xa1
irq_enable_slave(P) ==
  LET cl  == Byte(P.rcx - 8)
      edx == not(shl(mov_edx_1, cl))
      al  == and(P.slave, dl(edx))
  IN  [P EXCEPT !.rcx = cl, !.edx = edx, !.al = al, !.slave = al]

\* irq_enable: "mov rcx, rdi", then the master or the slave branch; the
\* slave branch calls irq_enable with rdi = 2 first and saves no register
RECURSIVE irq_enable(_)
irq_enable(P) ==
  IF Byte(P.rdi) >= 8
    THEN irq_enable_slave(irq_enable([P EXCEPT !.rcx = P.rdi, !.rdi = 2]))
    ELSE irq_enable_master([P EXCEPT !.rcx = P.rdi])

\* irq_disable: mask (1 << cl) or-ed into port 0x21, or (1 << (cl - 8))
\* into port 0xa1
irq_disable(P) ==
  IF Byte(P.rdi) >= 8
    THEN LET cl  == Byte(P.rdi - 8)
             edx == shl(mov_edx_1, cl)
             al  == or(P.slave, dl(edx))
         IN  [P EXCEPT !.rcx = cl, !.edx = edx, !.al = al, !.slave = al]
    ELSE LET edx == shl(mov_edx_1, Byte(P.rdi))
             al  == or(P.master, dl(edx))
         IN  [P EXCEPT !.rcx = P.rdi, !.edx = edx, !.al = al, !.master = al]

\* ------------------------------------------------- kernel.ld: spinlock
\* "xchg [rdi], rax" that only loads the lock word
xchg_load(word, rax) == [word |-> word, rax |-> word]

\* "xchg [rdi], rax": one locked exchange of the lock word with rax
xchg(word, rax) == [word |-> rax, rax |-> word]

\* "bt qword [rdi], 0": the carry flag is bit 0 of the lock word
bt(word) == word % 2 = 1

\* L = [lock, pc, rax, preempt]: the lock word, and for each CPU where it
\* is, its rax and its preempt counter (gs:0x18).
\* spin_lock up to the test after the first xchg
spin_lock(L, c) ==
  LET x == xchg(L.lock, 1)
  IN  [L EXCEPT !.lock = x.word, !.rax[c] = x.rax,
                !.preempt[c] = @ + 1,
                !.pc[c] = IF x.rax = 0 THEN "acquired" ELSE "retry"]

\* .retry: pause, bt, jc .retry
spin_lock_retry(L, c) ==
  [L EXCEPT !.pc[c] = IF bt(L.lock) THEN "retry" ELSE "xchg"]

\* the xchg after .retry, with the rax the xchg before left
spin_lock_xchg(L, c) ==
  LET x == xchg(L.lock, L.rax[c])
  IN  [L EXCEPT !.lock = x.word, !.rax[c] = x.rax,
                !.pc[c] = IF x.rax = 0 THEN "acquired" ELSE "retry"]

\* spin_try_lock: rax is 1 and the CPU has the lock, or rax is 0
spin_try_lock(L, c) ==
  LET x == xchg(L.lock, 1)
  IN  IF x.rax = 0
        THEN [L EXCEPT !.lock = x.word, !.rax[c] = 1, !.preempt[c] = @ + 1,
                       !.pc[c] = "acquired"]
      ELSE [L EXCEPT !.lock = x.word, !.rax[c] = 0]

spin_unlock(L, c) ==
  [L EXCEPT !.lock = 0, !.preempt[c] = @ - 1, !.pc[c] = "out"]

\* ------------------------------------------------------------ acpi.c
\* The boot page table the loader built (SetupPageTables): PML4T, PDPT, PDT
\* and PT, then the pool acpi_init extends it from.  The pages mapped by the
\* PT are 4 KiB pages, the rest of the first PDT is mapped by large pages;
\* the last page of the PT is the guard page of the kernel stack.
KMEM_BOOT_PAGETABLE        == 4 * PAGE_SIZE
KMEM_BOOT_PAGETABLE_LOADED == 8 * PAGE_SIZE
KMEM_BOOT_PAGETABLE_END    == 16 * PAGE_SIZE
\* the frames of the boot page table and the memory that follows it
BootFrames == 0 .. 4 * (KMEM_BOOT_PAGETABLE_END \div PAGE_SIZE) - 1
StdBits    == PF_PRESENT + PF_RW
Guard      == PF_SYSTEM             \* 1 << 9, ignored by the processor

SetupPageTables ==
  [f \in BootFrames |->
     IF f = PADDR_TO_PF(KMEM_BOOT_PAGETABLE)
       THEN [i \in Index |-> IF i = 0 THEN KMEM_BOOT_PAGETABLE + PAGE_SIZE + StdBits
                             ELSE 0]
     ELSE IF f = PADDR_TO_PF(KMEM_BOOT_PAGETABLE) + 1
       THEN [i \in Index |-> IF i = 0 THEN KMEM_BOOT_PAGETABLE + 2 * PAGE_SIZE + StdBits
                             ELSE 0]
     ELSE IF f = PADDR_TO_PF(KMEM_BOOT_PAGETABLE) + 2
       THEN [i \in Index |-> IF i = 0 THEN KMEM_BOOT_PAGETABLE + 3 * PAGE_SIZE + StdBits
                             ELSE i * PAGE_SIZE_LARGE + StdBits + PF_PS]
     ELSE IF f = PADDR_TO_PF(KMEM_BOOT_PAGETABLE) + 3
       THEN [i \in Index |-> IF i = TableEntries - 1
                               THEN i * PAGE_SIZE + PF_RW + Guard
                             ELSE i * PAGE_SIZE + StdBits]
     ELSE ZeroPage]

PAGE_ALIGN_DOWN(a) == a - (a % PAGE_SIZE)
PAGE_ALIGN_UP(a)   == PAGE_ALIGN_DOWN(a + PAGE_SIZE - 1)

SIZEOF_ACPI_HDR  == 36     \* sizeof(struct acpi_hdr)
SIZEOF_ACPI_MADT == 44     \* sizeof(struct acpi_madt)
ACPI_MADT_LOCAL_APIC == 0
ACPI_MADT_IO_APIC    == 1
ACPI_MADT_ISO        == 2

\* What the processor does with an access to addr under the table at root.
Translates(m, root, addr) ==
  LET e4 == m[PADDR_TO_PF(root)][PML4E(addr)] IN
  /\ HasFlag(e4, PF_PRESENT)
  /\ LET e3 == m[PADDR_TO_PF(PGPTR(e4))][PDPTE(addr)] IN
     /\ HasFlag(e3, PF_PRESENT)
     /\ \/ HasFlag(e3, PF_PS)
        \/ LET e2 == m[PADDR_TO_PF(PGPTR(e3))][PDE(addr)] IN
           /\ HasFlag(e2, PF_PRESENT)
           /\ \/ HasFlag(e2, PF_PS)
              \/ HasFlag(m[PADDR_TO_PF(PGPTR(e2))][PTE(addr)], PF_PRESENT)

\* B = [mem, root, next_page, term_page, status, ret, handed, linked, loads,
\*      madt, adds]: the btable_t of acpi_init with the memory of the boot
\* page table, and what acpi_init has done so far.
\* A load of n bytes at lo; it faults on a page that does not translate.
load(B, lo, n) ==
  IF B.status # "ok" THEN B
  ELSE IF \A p \in {PAGE_ALIGN_DOWN(lo), PAGE_ALIGN_DOWN(lo + n - 1)} :
            Translates(B.mem, B.root, p)
    THEN [B EXCEPT !.loads = @ + 1]
  ELSE [B EXCEPT !.status = "pagefault", !.ret = lo]

is_mapped(B, addr) ==
  LET e4 == B.mem[PADDR_TO_PF(B.root)][PML4E(addr)] IN
  IF e4 = 0 THEN FALSE
  ELSE LET e3 == B.mem[PADDR_TO_PF(PGPTR(e4))][PDPTE(addr)] IN
       IF e3 = 0 THEN FALSE
       ELSE IF HasFlag(e3, PF_PS) THEN TRUE
       ELSE LET e2 == B.mem[PADDR_TO_PF(PGPTR(e3))][PDE(addr)] IN
            IF e2 = 0 THEN FALSE
            ELSE IF HasFlag(e2, PF_PS) THEN TRUE
            ELSE B.mem[PADDR_TO_PF(PGPTR(e2))][PTE(addr)] # 0

\* alloc_page of acpi.c without the test for the end of the pool
acpi_alloc_page_unchecked(B) ==
  IF B.status # "ok" THEN B
  ELSE [B EXCEPT !.next_page = @ + PAGE_SIZE,
                 !.mem[PADDR_TO_PF(B.next_page)] = ZeroPage,
                 !.handed = Append(@, B.next_page),
                 !.ret = B.next_page + PF_PRESENT + PF_RW]

\* alloc_page of acpi.c
acpi_alloc_page(B) ==
  IF B.status # "ok" THEN B
  ELSE IF B.next_page = B.term_page THEN fatal(B)
  ELSE [B EXCEPT !.next_page = @ + PAGE_SIZE,
                 !.mem[PADDR_TO_PF(B.next_page)] = ZeroPage,
                 !.handed = Append(@, B.next_page),
                 !.ret = B.next_page + PF_PRESENT + PF_RW]

\* "t->entry[i] = alloc_page(btable);": A is the btable after alloc_page
boot_link(A, tbl, idx) ==
  IF A.status # "ok" THEN A
  ELSE [A EXCEPT !.mem[PADDR_TO_PF(tbl)][idx] = A.ret,
                 !.linked = Append(@,
                    [page |-> PGPTR(A.ret),
                     zero |-> A.mem[PADDR_TO_PF(PGPTR(A.ret))] = ZeroPage]),
                 !.ret = PGPTR(A.ret)]

\* "if (t->entry[i] == 0) t->entry[i] = alloc_page(btable);" then PGPTR of it
boot_child(B, tbl, idx) ==
  IF B.status # "ok" THEN B
  ELSE IF B.mem[PADDR_TO_PF(tbl)][idx] = 0
    THEN boot_link(acpi_alloc_page(B), tbl, idx)
  ELSE [B EXCEPT !.ret = PGPTR(B.mem[PADDR_TO_PF(tbl)][idx])]

\* the same in the table the step before found
boot_next(B, idx) ==
  IF B.status # "ok" THEN B ELSE boot_child(B, B.ret, idx)

\* "pt->entry[pte] = addr | flags;"
boot_leaf(B, addr, flags) ==
  IF B.status # "ok" THEN B
  ELSE [B EXCEPT !.mem[PADDR_TO_PF(B.ret)][PTE(addr)] = addr + flags]

create_page(B, addr, flags) ==
  boot_leaf(boot_next(boot_next(boot_child(B, B.root, PML4E(addr)),
                                PDPTE(addr)), PDE(addr)),
            addr, flags)

RECURSIVE map_range_from(_, _, _, _)
map_range_from(B, addr, term, flags) ==
  IF ~(addr < term) \/ B.status # "ok" THEN B
  ELSE map_range_from(IF is_mapped(B, addr) THEN B
                      ELSE create_page(B, addr, flags),
                      addr + PAGE_SIZE, term, flags)

map_range(B, addr, size, flags) ==
  map_range_from(B, PAGE_ALIGN_DOWN(addr), PAGE_ALIGN_UP(addr + size), flags)

\* The tables of the firmware: F = [xsdt, root, tables]; the root table is
\* an XSDT (8-byte pointers) or an RSDT (4-byte pointers) that points to
\* tables[1], tables[2], ...; a table T = [addr, length, madt, entries] is a
\* MADT with its entries [type, length], or another table.
PtrSize(F)    == IF F.xsdt THEN 8 ELSE 4
RootLength(F) == SIZEOF_ACPI_HDR + PtrSize(F) * Len(F.tables)
NoTable       == [addr |-> 0, length |-> 0, madt |-> FALSE, entries |-> <<>>]

\* pmap_add(addr, size, type) of acpi_init
acpi_pmap_add(B, addr, size, type) ==
  IF B.status # "ok" THEN B
  ELSE [B EXCEPT !.adds = Append(@, Region(addr, size, type))]

\* hdr->length is at offset 4 of the header
map_table(B, addr, length) ==
  acpi_pmap_add(
    load(map_range(load(map_range(B, addr, SIZEOF_ACPI_HDR, StdBits),
                        addr + 4, 4),
                   addr, length, StdBits),
         addr + 4, 4),
    PAGE_ALIGN_DOWN(addr),
    PAGE_ALIGN_UP(addr + length) - PAGE_ALIGN_DOWN(addr), PMEMTYPE_ACPI)

\* read_madt
read_madt(B, T) ==
  IF B.status = "ok" /\ T.madt THEN [B EXCEPT !.madt = T] ELSE B

\* read_table: of the tables, acpi_init uses the MADT
read_table(B, T) == read_madt(load(B, T.addr, 4), T)

\* the loop of read_xsdt and of read_rsdt, from table i of the root on
RECURSIVE read_xsdt(_, _, _)
read_xsdt(B, F, i) ==
  IF B.status # "ok" \/ i > Len(F.tables) THEN B
  ELSE read_xsdt(
         read_table(
           map_table(load(B, F.root + SIZEOF_ACPI_HDR + PtrSize(F) * (i - 1),
                          PtrSize(F)),
                     F.tables[i].addr, F.tables[i].length),
           F.tables[i]),
         F, i + 1)

\* Offset from the start of the MADT of entry i, and the entry at an offset.
RECURSIVE EntryOffset(_, _)
EntryOffset(M, i) ==
  IF i = 1 THEN SIZEOF_ACPI_MADT
  ELSE EntryOffset(M, i - 1) + M.entries[i - 1].length

MadtEntryAt(M, off) ==
  LET at == {i \in 1 .. Len(M.entries) : EntryOffset(M, i) = off}
  IN  IF at = {} THEN [type |-> -1, length |-> 0]
      ELSE M.entries[CHOOSE i \in at : \A j \in at : i <= j]

\* The loop of madt_find from ptr on; ret is the offset of the entry found,
\* 0 for NULL.  An entry of length 0 that is not of the type looked for
\* keeps the loop at ptr forever.
RECURSIVE madt_walk(_, _, _, _)
\* "ptr = (const uint8_t *)hdr + hdr->length;" after the load of hdr->length
madt_step(B, M, type, ptr) ==
  IF B.status # "ok" THEN B
  ELSE IF MadtEntryAt(M, ptr).length = 0 THEN [B EXCEPT !.status = "hung"]
  ELSE madt_walk(B, M, type, ptr + MadtEntryAt(M, ptr).length)

\* "if (hdr->type == type) return hdr;" after the load of hdr->type
madt_entry(B, M, type, ptr) ==
  IF B.status # "ok" THEN B
  ELSE IF MadtEntryAt(M, ptr).type = type THEN [B EXCEPT !.ret = ptr]
  ELSE madt_step(load(B, M.addr + ptr + 1, 1), M, type, ptr)

madt_walk(B, M, type, ptr) ==
  IF B.status # "ok" THEN B
  ELSE IF ~(ptr < M.length) THEN [B EXCEPT !.ret = 0]
  ELSE madt_entry(load(B, M.addr + ptr, 1), M, type, ptr)

\* madt_find(type, prev); prev is an offset, 0 for NULL
madt_find(B, type, prev) ==
  IF B.status # "ok" THEN B
  ELSE IF B.madt = NoTable THEN [B EXCEPT !.ret = 0]
  ELSE IF prev = 0
    THEN madt_walk(load(B, B.madt.addr + 4, 4), B.madt, type, SIZEOF_ACPI_MADT)
  ELSE madt_walk(load(load(B, B.madt.addr + 4, 4), B.madt.addr + prev + 1, 1),
                 B.madt, type, prev + MadtEntryAt(B.madt, prev).length)

\* The I/O APIC loop of acpi_init; ptr_io_apic is at offset 4 of the entry.
IO_APIC_ADDR    == 201 * PAGE_SIZE
LOCAL_APIC_ADDR == 200 * PAGE_SIZE

RECURSIVE io_apics(_, _)
\* N is the btable after acpi_next_io_apic(prev)
io_apic(N, prev) ==
  IF N.status # "ok" \/ N.ret = 0 THEN N
  ELSE IF N.ret = prev THEN [N EXCEPT !.status = "hung"]
  ELSE io_apics(acpi_pmap_add(load(N, N.madt.addr + N.ret + 4, 4),
                              IO_APIC_ADDR, PAGE_SIZE, PMEMTYPE_UNCACHED),
                N.ret)

io_apics(B, prev) == io_apic(madt_find(B, ACPI_MADT_IO_APIC, prev), prev)

\* "if (acpi.madt != NULL) pmap_add(acpi.madt->ptr_local_apic ...)"
local_apic(B) ==
  IF B.status # "ok" \/ B.madt = NoTable THEN B
  ELSE acpi_pmap_add(load(B, B.madt.addr + SIZEOF_ACPI_HDR, 4),
                     LOCAL_APIC_ADDR, PAGE_SIZE, PMEMTYPE_UNCACHED)

\* the btable_t of acpi_init
Btable0 ==
  [mem |-> SetupPageTables,
   root |-> KMEM_BOOT_PAGETABLE,
   next_page |-> KMEM_BOOT_PAGETABLE_LOADED,
   term_page |-> KMEM_BOOT_PAGETABLE_END,
   status |-> "ok", ret |-> 0, handed |-> <<>>, linked |-> <<>>,
   loads |-> 0, madt |-> NoTable, adds |-> <<>>]

\* acpi_init, for a machine whose RSDP names the root table of F
acpi_init(F) ==
  io_apics(local_apic(read_xsdt(load(map_table(Btable0, F.root, RootLength(F)),
                                     F.root + 4, 4),
                                F, 1)),
           0)

\* ------------------------------------------------------------- state
VARIABLES
  pfdb,        \* [pf, avail, head, tail]: the page frame database
  mem,         \* physical memory: the entries of every frame
  pt,          \* the pagetable_t handles: kpt and the caller's
  active_pt,   \* handle of the active page table
  cr3,         \* value last written to CR3
  status,      \* "ok", "fatal" (int 0xff) or "pagefault"
  hist,        \* the last kernel call and what it did
  live,        \* pages returned by page_alloc and not yet freed
  misuse,      \* page_free was given a range that is not live
  pair,        \* run of pfalloc+pffree pairs in progress
  nops,        \* kernel calls made so far
  pmap,        \* [region, last_usable]: the physical memory map
  initialized, \* pmap.c's flag: pmap_init has run
  fed,         \* the records the last normalize started from
  ncalls,      \* pmap calls made so far
  intr,        \* interrupt tables, the CPU after the last interrupt
  acpi,        \* boot page table and ACPI tables as acpi_init sees them
  spin         \* the lock word and the CPUs at work on it

pagingvars == <<pfdb, mem, pt, active_pt, cr3, status, hist, live, misuse,
                pair, nops>>
pmapvars   == <<pmap, initialized, fed, ncalls>>
bootvars   == <<intr, acpi, spin>>
vars == <<pfdb, mem, pt, active_pt, cr3, status, hist, live, misuse, pair,
          nops, pmap, initialized, fed, ncalls, intr, acpi, spin>>

\* The interrupted code: every register holds a value of its own.
Regs0 == [r \in GPR |-> 1000 + CHOOSE i \in 1 .. 15 : PopOrder[i] = r]
CPU0  == [regs |-> Regs0, stack |-> << 7001, 7002 >>, rsp |-> 2,
          rip |-> 3162112, calls |-> << >>, via |-> "none",
          state |-> "running"]

\* memory of the interrupt tables before interrupts_init
IntrOff == [loaded |-> FALSE,
            thunk |-> [v \in Vectors |->
                         [nop |-> 0, push |-> 0, imm |-> 0, jmp |-> 0,
                          rel |-> 0]],
            idt |-> [v \in Vectors |->
                       [OffsetLo |-> 0, Segment |-> 0, Flags |-> 0,
                        OffsetMid |-> 0, OffsetHi |-> 0, Reserved |-> 0]],
            isr_table |-> [v \in Vectors |-> QZero],
            cpu |-> CPU0, op |-> "none", v |-> 0, e |-> 0, nsets |-> 0]
AcpiOff == [op |-> "none"]
SpinOff == [op |-> "none"]
BootOff == intr = IntrOff /\ acpi = AcpiOff /\ spin = SpinOff

Handles     == {"kpt", "upt", "upt2"}
UserHandles == {"upt", "upt2"}
OneTable    == {"kpt", "upt"}           \* callers that own one page table

\* Addresses handed to the paging API.
UserBase   == 1 * PGSPAN_PML4E          \* PML4 slot 1, not used by the kernel
FreshBase  == 2 * PGSPAN_PML4E          \* PML4 slot 2, not used by the kernel
KernelPage == KMEM_KERNEL_PAGETABLE     \* identity-mapped kernel page
VRoots     == {UserBase}
Sizes      == {4 * PAGE_SIZE, 9 * PAGE_SIZE}
VAddrs     == {UserBase + PAGE_SIZE, FreshBase, FreshBase + PAGE_SIZE_LARGE,
               KernelPage}
Counts     == {1, 2}

Cur == [pf |-> pfdb.pf, avail |-> pfdb.avail, head |-> pfdb.head,
        tail |-> pfdb.tail, mem |-> mem, pt |-> pt, active_pt |-> active_pt,
        cr3 |-> cr3, status |-> status,
        ret |-> 0, added |-> <<>>, ubhit |-> FALSE,
        nalloc |-> 0, nfree |-> 0, ninterior |-> 0, tables |-> {},
        depth |-> 0,
        sysw |-> FALSE, sys_hit |-> FALSE, sys_write |-> FALSE,
        sys_clear |-> FALSE, inv |-> {}, chg |-> {}]

\* The outcomes to go through for a call whose run r took the fault at
\* every out-of-array access: all of them when r met such an access.
UBChoices(r) == IF r.ubhit THEN UBOutcomes ELSE {UB_FAULT}

NumType(p, t) == Cardinality({f \in Frames : p[f].type = t})

NoPair == [n |-> 0, open |-> FALSE, avail0 |-> 0, h |-> "kpt", vaddr |-> 0]

\* The call is page_free(pt, v, n) made right after page_alloc(pt, v, n).
Paired(call) ==
  /\ call.op = "page_free" /\ hist.op = "page_alloc"
  /\ hist.h = call.h /\ hist.vaddr = call.vaddr /\ hist.count = call.count

\* The PT leaf entry of vaddr in the table rooted at proot, as the MMU walks
\* it (0 when an upper level is missing).
EntryAt(tbl, idx) == IF Mapped(tbl) THEN mem[PADDR_TO_PF(tbl)][idx] ELSE 0

LeafOf(proot, vaddr) ==
  LET e4 == EntryAt(proot, PML4E(vaddr))
      e3 == IF e4 = 0 THEN 0 ELSE EntryAt(PGPTR(e4), PDPTE(vaddr))
      e2 == IF e3 = 0 THEN 0 ELSE EntryAt(PGPTR(e3), PDE(vaddr))
  IN  IF e2 = 0 THEN 0 ELSE EntryAt(PGPTR(e2), PTE(vaddr))

\* The call is page_alloc(pt, v, n) and none of its n pages has a PT entry.
Unmapped(call) ==
  /\ call.op = "page_alloc"
  /\ \A i \in 0 .. call.count - 1 :
       LeafOf(pt[call.h].proot, call.vaddr + i * PAGE_SIZE) = 0

\* The life of a page table, as far as the calls made so far follow it:
\* pagetable_create(h), then page_alloc and page_free on h, then
\* pagetable_destroy(h).  allocated0 is the number of Allocated frames
\* before the pagetable_create.
NoLife == [h |-> "kpt", open |-> FALSE, done |-> FALSE, allocated0 |-> 0]

LifeAfter(R, call) ==
  IF R.status # "ok" THEN NoLife
  ELSE IF call.op = "pagetable_create"
    THEN [h |-> call.h, open |-> TRUE, done |-> FALSE,
          allocated0 |-> NumType(pfdb.pf, PFTYPE_ALLOCATED)]
  ELSE IF ~hist.life.open \/ call.h # hist.life.h THEN NoLife
  ELSE IF call.op \in {"page_alloc", "page_free"} THEN hist.life
  ELSE IF call.op = "pagetable_destroy"
    THEN [hist.life EXCEPT !.open = FALSE, !.done = TRUE]
  ELSE NoLife

Commit(R, call) ==
  /\ pfdb' = [pf |-> R.pf, avail |-> R.avail, head |-> R.head, tail |-> R.tail]
  /\ mem' = R.mem
  /\ pt' = R.pt
  /\ active_pt' = R.active_pt
  /\ cr3' = R.cr3
  /\ status' = R.status
  /\ hist' = [op |-> call.op, h |-> call.h, vaddr |-> call.vaddr,
              count |-> call.count,
              nalloc |-> R.nalloc, nfree |-> R.nfree,
              ninterior |-> R.ninterior, tables |-> R.tables,
              depth |-> R.depth,
              sys_hit |-> R.sys_hit, sys_write |-> R.sys_write,
              sys_clear |-> R.sys_clear, inv |-> R.inv,
              chg |-> IF call.op = "pagetable_destroy"
                        THEN {x[2] : x \in {y \in live : y[1] = call.h
                                                      /\ call.h = active_pt}}
                        ELSE R.chg,
              life |-> LifeAfter(R, call),
              avail0 |-> pfdb.avail,
              allocated0 |-> NumType(pfdb.pf, PFTYPE_ALLOCATED),
              head0 |-> pfdb.head,
              pf_same |-> (R.pf = pfdb.pf),
              unmapped0 |-> Unmapped(call),
              ret |-> IF call.op = "page_alloc" /\ R.status = "ok"
                        THEN call.vaddr ELSE 0,
              paired |-> Paired(call),
              before_alloc |-> IF Paired(call) THEN hist.allocated0 ELSE 0,
              interior_alloc |-> IF Paired(call) THEN hist.ninterior ELSE 0]
  /\ nops' = nops + 1
  /\ UNCHANGED <<pmapvars, bootvars>>

Init ==
  LET K == kmem_init(PagingMap)
      D == page_init_pfdb(PagingMap)
  IN  /\ pfdb = D
      /\ mem = K.mem
      /\ pt = [h \in Handles |->
                 IF h = "kpt"
                   THEN [proot |-> KMEM_KERNEL_PAGETABLE,
                         vroot |-> KMEM_KERNEL_PAGETABLE,
                         vnext |-> K.vnext,
                         vterm |-> KMEM_KERNEL_PAGETABLE_END]
                   ELSE ZeroPT]
      /\ active_pt = "kpt"
      /\ cr3 = KMEM_KERNEL_PAGETABLE
      /\ status = K.status
      /\ hist = [op |-> "page_init", h |-> "kpt", vaddr |-> 0, count |-> 0,
                 nalloc |-> 0, nfree |-> 0, ninterior |-> 0,
                 tables |-> {}, depth |-> 0,
                 sys_hit |-> FALSE, sys_write |-> FALSE, sys_clear |-> FALSE,
                 inv |-> {}, chg |-> {}, life |-> NoLife,
                 avail0 |-> 0, allocated0 |-> 0,
                 head0 |-> D.head, pf_same |-> TRUE, unmapped0 |-> FALSE,
                 ret |-> 0, paired |-> FALSE,
                 before_alloc |-> 0, interior_alloc |-> 0]
      /\ live = {}
      /\ misuse = FALSE
      /\ pair = NoPair
      /\ nops = 0
      /\ pmap = PagingMap
      /\ initialized = TRUE
      /\ fed = NotFed
      /\ ncalls = 0
      /\ BootOff

Ready == status = "ok" /\ nops < MaxOps

RangeOf(h, vaddr, count) ==
  {<<h, vaddr + i * PAGE_SIZE>> : i \in 0 .. count - 1}

\* page_alloc(pt, vaddr, count)
PageAllocOn(HS) ==
  /\ Ready
  /\ \E h \in HS \cap Handles, v \in VAddrs, n \in Counts :
       \E r \in {page_alloc(Cur, h, v, n, UB_FAULT)} :
       \E u \in UBChoices(r) :
       \E R \in {IF u = UB_FAULT THEN r ELSE page_alloc(Cur, h, v, n, u)} :
         /\ Commit(R, [op |-> "page_alloc", h |-> h, vaddr |-> v, count |-> n])
         /\ live' = IF R.status = "ok" THEN live \cup RangeOf(h, v, n) ELSE live
         /\ misuse' = misuse
         /\ pair' = IF R.status = "ok" /\ R.nalloc = 1 /\ ~pair.open
                      THEN [n |-> pair.n, open |-> TRUE,
                            avail0 |-> IF pair.n = 0 THEN pfdb.avail
                                       ELSE pair.avail0,
                            h |-> h, vaddr |-> v]
                      ELSE NoPair

\* page_free(pt, vaddr, count)
PageFreeOn(HS) ==
  /\ Ready
  /\ \E h \in HS \cap Handles, v \in VAddrs, n \in Counts :
       \E r \in {page_free(Cur, h, v, n, UB_FAULT)} :
       \E u \in UBChoices(r) :
       \E R \in {IF u = UB_FAULT THEN r ELSE page_free(Cur, h, v, n, u)} :
         /\ Commit(R, [op |-> "page_free", h |-> h, vaddr |-> v, count |-> n])
         /\ live' = live \ RangeOf(h, v, n)
         /\ misuse' = (misuse \/ ~(RangeOf(h, v, n) \subseteq live))
         /\ pair' = IF R.status = "ok" /\ pair.open /\ pair.h = h
                       /\ pair.vaddr = v /\ n = 1 /\ R.nfree = 1
                       /\ pfdb.head # R.head /\ R.head = hist.head0
                      THEN [pair EXCEPT !.n = @ + 1, !.open = FALSE]
                      ELSE NoPair

\* pagetable_create(pt, vaddr, size)
PagetableCreateAt(HS, roots) ==
  /\ Ready
  /\ \E h \in HS \cap UserHandles, v \in roots, sz \in Sizes :
       \E r \in {pagetable_create(Cur, h, v, sz, UB_FAULT)} :
       \E u \in UBChoices(r) :
       \E R \in {IF u = UB_FAULT THEN r ELSE pagetable_create(Cur, h, v, sz, u)} :
         /\ Commit(R, [op |-> "pagetable_create", h |-> h, vaddr |-> v,
                       count |-> sz])
         /\ live' = {x \in live : x[1] # h}
         /\ UNCHANGED misuse
         /\ pair' = NoPair

PagetableCreateOn(HS) == PagetableCreateAt(HS, VRoots)

\* pagetable_destroy(pt)
PagetableDestroyOn(HS) ==
  /\ Ready
  /\ \E h \in HS \cap UserHandles :
       \E r \in {pagetable_destroy(Cur, h, UB_FAULT)} :
       \E u \in UBChoices(r) :
       \E R \in {IF u = UB_FAULT THEN r ELSE pagetable_destroy(Cur, h, u)} :
         /\ Commit(R, [op |-> "pagetable_destroy", h |-> h, vaddr |-> 0,
                       count |-> 0])
         /\ live' = {x \in live : x[1] # h}
         /\ UNCHANGED misuse
         /\ pair' = NoPair

\* pagetable_activate(pt)
PagetableActivateOn(HS) ==
  /\ Ready
  /\ \E h \in HS \cap Handles :
       /\ Commit(pagetable_activate(Cur, h),
                 [op |-> "pagetable_activate", h |-> h, vaddr |-> 0,
                  count |-> 0])
       /\ UNCHANGED <<live, misuse>>
       /\ pair' = NoPair

\* One caller with one page table of its own, next to the kernel's.
PageAlloc         == PageAllocOn(OneTable)
PageFree          == PageFreeOn(OneTable)
PagetableCreate   == PagetableCreateOn(OneTable)
PagetableDestroy  == PagetableDestroyOn(OneTable)
PagetableActivate == PagetableActivateOn(OneTable)

Next == PageAlloc \/ PageFree \/ PagetableCreate \/ PagetableDestroy
          \/ PagetableActivate

Spec == Init /\ [][Next]_vars

\* Two page tables of the caller's, next to the kernel's.
PageAllocTwo         == PageAllocOn(Handles)
PageFreeTwo          == PageFreeOn(Handles)
PagetableCreateTwo   == PagetableCreateOn(Handles)
PagetableDestroyTwo  == PagetableDestroyOn(Handles)
PagetableActivateTwo == PagetableActivateOn(Handles)

NextTwo == PageAllocTwo \/ PageFreeTwo \/ PagetableCreateTwo
             \/ PagetableDestroyTwo \/ PagetableActivateTwo

SpecTwo == Init /\ [][NextTwo]_vars

\* One page table of the caller's whose window starts on the last page but
\* one of a PT, so that the window runs into the next PT after one page.
EdgeRoot == UserBase + (TableEntries - 2) * PAGE_SIZE
PagetableCreateEdge == PagetableCreateAt(OneTable, {EdgeRoot})

NextEdge == PageAlloc \/ PageFree \/ PagetableCreateEdge \/ PagetableDestroy
              \/ PagetableActivate

SpecEdge == Init /\ [][NextEdge]_vars

\* ------------------------------------------------ memory map at boot
\* The memory map is set up before page_init: the paging module holds
\* nothing yet.
PagingOff ==
  /\ pfdb = <<>>
  /\ mem = <<>>
  /\ pt = <<>>
  /\ active_pt = "kpt"
  /\ cr3 = 0
  /\ status = "ok"
  /\ hist = [op |-> "boot"]
  /\ live = {}
  /\ misuse = FALSE
  /\ pair = NoPair
  /\ nops = 0

\* Records the BIOS and pmap_add's callers hand over: page-granular, inside
\* the first MaxAddr pages, empty records included.
PmapTypes == {PMEMTYPE_USABLE, PMEMTYPE_RESERVED, PMEMTYPE_BAD}
Records ==
  { Region(a * PAGE_SIZE, n * PAGE_SIZE, t) :
      <<a, n, t>> \in { x \in (0 .. MaxAddr - 1) \X (0 .. MaxAddr) \X PmapTypes :
                          x[1] + x[2] <= MaxAddr } }

\* The map of the BIOS of a PC with 128 MiB of memory.
BiosExample ==
  << Region(0, 653312, PMEMTYPE_USABLE),
     Region(653312, 2048, PMEMTYPE_RESERVED),
     Region(655360, 393216, PMEMTYPE_RESERVED),
     Region(1048576, 133038080, PMEMTYPE_USABLE),
     Region(134086656, 131072, PMEMTYPE_ACPI_NVS) >>

\* A table in ascending or in descending cmp_region order; records that
\* compare equal stand in either order.
Ascending(l)  == \A i \in 1 .. Len(l) - 1 : cmp_region(l[i], l[i + 1]) <= 0
Descending(l) == \A i \in 1 .. Len(l) - 1 : cmp_region(l[i], l[i + 1]) >= 0

InitNormalize ==
  /\ PagingOff
  /\ BootOff
  /\ pmap \in { [region |-> l, last_usable |-> 0] : l \in {<<>>, BiosExample} }
  /\ initialized = FALSE
  /\ fed = NotFed
  /\ ncalls = 0

\* The boot code stores one more record of the BIOS in the table
\* (Mem.Table, KMEM_TABLE_BIOS).
BootRecord ==
  /\ ncalls = 0
  /\ Len(pmap.region) < MaxRegions
  /\ \E r \in Records :
       LET l == Append(pmap.region, r)
       IN  /\ Ascending(l) \/ Descending(l)
           /\ pmap' = [pmap EXCEPT !.region = l]
  /\ UNCHANGED <<initialized, fed, ncalls, pagingvars, bootvars>>

\* normalize, on the table as it stands
Normalize ==
  /\ ncalls = 0
  /\ fed' = pmap.region
  /\ pmap' = normalize(pmap.region)
  /\ ncalls' = 1
  /\ UNCHANGED <<initialized, pagingvars, bootvars>>

NextNormalize == BootRecord \/ Normalize

SpecNormalize == InitNormalize /\ [][NextNormalize]_vars

\* The table starts empty; records arrive through pmap_add, before and
\* after pmap_init.
InitPmap ==
  /\ PagingOff
  /\ BootOff
  /\ pmap = [region |-> <<>>, last_usable |-> 0]
  /\ initialized = FALSE
  /\ fed = NotFed
  /\ ncalls = 0

\* pmap_init()
PmapInit ==
  /\ ~initialized
  /\ ncalls <= MaxRegions
  /\ fed' = add_region(add_region(add_region(pmap.region,
               KMEM_VIDEO, KMEM_VIDEO_SIZE, PMEMTYPE_UNCACHED),
               0, KMEM_KERNEL_IMAGE_END, PMEMTYPE_RESERVED),
               0, PAGE_SIZE, PMEMTYPE_UNMAPPED)
  /\ pmap' = pmap_init(pmap)
  /\ initialized' = TRUE
  /\ ncalls' = ncalls + 1
  /\ UNCHANGED <<pagingvars, bootvars>>

\* pmap_add(addr, size, type)
PmapAdd ==
  /\ ncalls < MaxRegions
  /\ \E r \in Records :
       /\ fed' = IF initialized THEN add_region(pmap.region, r.addr, r.size, r.type)
                  ELSE fed
       /\ pmap' = pmap_add(pmap, initialized, r.addr, r.size, r.type)
  /\ ncalls' = ncalls + 1
  /\ UNCHANGED <<initialized, pagingvars, bootvars>>

NextPmap == PmapInit \/ PmapAdd

SpecPmap == InitPmap /\ [][NextPmap]_vars

\* ------------------------------------------- kernel page table at boot
\* The BIOS reports memory above the kernel image as consecutive records;
\* their boundaries need not fall on page boundaries (0x9F800 in a PC).
Grain     == PAGE_SIZE \div 2
KmemSizes == {Grain, PAGE_SIZE, PAGE_SIZE_LARGE + PAGE_SIZE, PAGE_SIZE_HUGE}
KmemTypes == {PMEMTYPE_USABLE, PMEMTYPE_RESERVED, PMEMTYPE_ACPI_NVS,
              PMEMTYPE_BAD}

InitKmem ==
  /\ PagingOff
  /\ BootOff
  /\ pmap = [region |-> <<>>, last_usable |-> 0]
  /\ initialized = FALSE
  /\ fed = NotFed
  /\ ncalls = 0

\* the boot loader stores one more record of the BIOS memory map
BiosRecord ==
  /\ ~initialized
  /\ Len(pmap.region) < MaxRegions
  /\ \E s \in KmemSizes, t \in KmemTypes :
       LET n == Len(pmap.region)
           a == IF n = 0 THEN KMEM_KERNEL_IMAGE_END
                ELSE pmap.region[n].addr + pmap.region[n].size
       IN  pmap' = [pmap EXCEPT !.region = add_region(@, a, s, t)]
  /\ UNCHANGED <<initialized, fed, ncalls, pagingvars, bootvars>>

\* pmap_init()
KmemPmapInit ==
  /\ ~initialized
  /\ fed' = add_region(add_region(add_region(pmap.region,
                KMEM_VIDEO, KMEM_VIDEO_SIZE, PMEMTYPE_UNCACHED),
                0, KMEM_KERNEL_IMAGE_END, PMEMTYPE_RESERVED),
                0, PAGE_SIZE, PMEMTYPE_UNMAPPED)
  /\ pmap' = pmap_init(pmap)
  /\ initialized' = TRUE
  /\ ncalls' = ncalls + 1
  /\ UNCHANGED <<pagingvars, bootvars>>

\* kmem_init(&kpt)
KmemInit ==
  /\ initialized
  /\ hist.op = "boot"
  /\ \E K \in {kmem_init(pmap)} :
       /\ mem' = K.mem
       /\ pt' = [h \in Handles |->
                   IF h = "kpt"
                     THEN [proot |-> KMEM_KERNEL_PAGETABLE,
                           vroot |-> KMEM_KERNEL_PAGETABLE,
                           vnext |-> K.vnext,
                           vterm |-> KMEM_KERNEL_PAGETABLE_END]
                     ELSE ZeroPT]
       /\ status' = K.status
  /\ hist' = [op |-> "kmem_init"]
  /\ UNCHANGED <<pfdb, active_pt, cr3, live, misuse, pair, nops, pmapvars, bootvars>>

NextKmem == BiosRecord \/ KmemPmapInit \/ KmemInit

SpecKmem == InitKmem /\ [][NextKmem]_vars

\* page_init(), called by kmain after pmap_init
PageInit ==
  /\ initialized
  /\ hist.op = "boot"
  /\ \E R \in {page_init(pmap)} :
       /\ pmap' = R.map
       /\ IF R.status # "ok"
            THEN /\ status' = R.status
                 /\ hist' = [op |-> "page_init", addr |-> 0, size |-> 0]
                 /\ UNCHANGED <<pfdb, mem, pt, cr3>>
            ELSE \E K \in {kmem_init(R.map)} :
                   /\ mem' = K.mem
                   /\ pt' = [h \in Handles |->
                               IF h = "kpt"
                                 THEN [proot |-> KMEM_KERNEL_PAGETABLE,
                                       vroot |-> KMEM_KERNEL_PAGETABLE,
                                       vnext |-> K.vnext,
                                       vterm |-> KMEM_KERNEL_PAGETABLE_END]
                                 ELSE ZeroPT]
                   /\ status' = K.status
                   /\ cr3' = KMEM_KERNEL_PAGETABLE
                   /\ pfdb' = R.pfdb
                   /\ hist' = [op |-> "page_init", addr |-> R.addr,
                               size |-> R.size]
  /\ UNCHANGED <<active_pt, live, misuse, pair, nops, initialized, fed,
                 ncalls, bootvars>>

NextPageInit == BiosRecord \/ KmemPmapInit \/ PageInit

SpecPageInit == InitKmem /\ [][NextPageInit]_vars

\* ------------------------------------------------------ kmain: bring-up
\* kmain calls acpi_init(), pmap_init(), page_init() in this order.  The
\* position of kmain is acpi.pc; the boot loader has stored the BIOS records
\* before kmain starts.
AcpiAddrs == {KMEM_KERNEL_IMAGE_END + PAGE_SIZE, KMEM_KERNEL_IMAGE_END + 2 * PAGE_SIZE}
AcpiTypes == {PMEMTYPE_ACPI, PMEMTYPE_UNCACHED}
NotRead   == [initialized |-> FALSE, map |-> [region |-> <<>>, last_usable |-> 0],
              read |-> FALSE]

\* Records the memory of the table holds: (Mem.Table.Size - 0x10) / 0x18 in
\* the kernel.  The loader stops storing BIOS records at this count.
TableCapacity == MaxRegions

InitBoot ==
  /\ PagingOff
  /\ intr = IntrOff /\ spin = SpinOff
  /\ acpi = [op |-> "kmain", pc |-> "loader", nadds |-> 0, early |-> 0,
             appended |-> TRUE, past |-> FALSE, seen |-> NotRead]
  /\ pmap = [region |-> <<>>, last_usable |-> 0]
  /\ initialized = FALSE
  /\ fed = NotFed
  /\ ncalls = 0

\* the boot loader stores one more record of the BIOS memory map
LoaderRecord ==
  /\ acpi.pc = "loader"
  /\ ~initialized
  /\ Len(pmap.region) < TableCapacity
  /\ \E s \in {Grain, PAGE_SIZE}, t \in KmemTypes :
       LET n == Len(pmap.region)
           a == IF n = 0 THEN KMEM_KERNEL_IMAGE_END
                ELSE pmap.region[n].addr + pmap.region[n].size
       IN  pmap' = [pmap EXCEPT !.region = add_region(@, a, s, t)]
  /\ UNCHANGED <<initialized, fed, ncalls, pagingvars, bootvars>>

\* the boot loader jumps to kmain, which calls acpi_init()
KmainStart ==
  /\ acpi.pc = "loader"
  /\ acpi' = [acpi EXCEPT !.pc = "acpi_init"]
  /\ UNCHANGED <<pagingvars, pmapvars, intr, spin>>

\* acpi_init: pmap_add for a table (map_table), the local APIC or an I/O
\* APIC; acpi.past tells that add_region wrote a record past the end of the
\* table memory
AcpiPmapAdd ==
  /\ acpi.pc = "acpi_init"
  /\ Len(pmap.region) <= TableCapacity
  /\ \E a \in AcpiAddrs, t \in AcpiTypes :
       /\ pmap' = pmap_add(pmap, initialized, a, PAGE_SIZE, t)
       /\ acpi' = [acpi EXCEPT
            !.nadds = @ + 1,
            !.early = IF initialized THEN @ ELSE @ + 1,
            !.past = @ \/ Len(pmap.region) >= TableCapacity,
            !.appended = @ /\ pmap' = [pmap EXCEPT !.region =
                                         add_region(@, a, PAGE_SIZE, t)]]
  /\ UNCHANGED <<initialized, fed, ncalls, pagingvars, intr, spin>>

\* acpi_init returns; kmain calls pmap_init()
KmainPmapInit ==
  /\ acpi.pc = "acpi_init"
  /\ pmap' = pmap_init(pmap)
  /\ initialized' = TRUE
  /\ ncalls' = ncalls + 1
  /\ acpi' = [acpi EXCEPT !.pc = "page_init",
                          !.past = @ \/ Len(pmap.region) + 3 > TableCapacity]
  /\ UNCHANGED <<fed, pagingvars, intr, spin>>

\* page_init() reads the map, and hands it to kmem_init
KmainPageInit ==
  /\ acpi.pc = "page_init"
  /\ acpi' = [acpi EXCEPT !.pc = "interrupts_init",
                          !.seen = [initialized |-> initialized, map |-> pmap,
                                    read |-> TRUE]]
  /\ status' = IF pmap.last_usable = 0 THEN "fatal" ELSE status
  /\ UNCHANGED <<pfdb, mem, pt, active_pt, cr3, hist, live, misuse, pair, nops,
                 pmapvars, intr, spin>>

NextBoot == LoaderRecord \/ KmainStart \/ AcpiPmapAdd \/ KmainPmapInit \/ KmainPageInit

SpecBoot == InitBoot /\ [][NextBoot]_vars

\* ------------------------------------------------------ acpi_init at work
MaxTables == 2     \* tables the root table points to

RootAddrs  == {2 * PAGE_SIZE + 16, 64 * PAGE_SIZE}
TableAddrs == {PAGE_SIZE + 1024, 69 * PAGE_SIZE - 4, 128 * PAGE_SIZE + 8,
               72 * PAGE_SIZE - (SIZEOF_ACPI_MADT + 2)}
Entry(t, l) == [type |-> t, length |-> l]

\* Length and entries of a MADT: well-formed ones, one whose last entry
\* reaches past hdr.length, one that hdr.length cuts after the first two
\* bytes of its entry, one with an entry of length 0.
MadtContents ==
  { [length |-> SIZEOF_ACPI_MADT + 12,
     entries |-> << Entry(ACPI_MADT_IO_APIC, 12) >>],
    [length |-> SIZEOF_ACPI_MADT + 20,
     entries |-> << Entry(ACPI_MADT_LOCAL_APIC, 8), Entry(ACPI_MADT_IO_APIC, 12) >>],
    [length |-> SIZEOF_ACPI_MADT + 14,
     entries |-> << Entry(ACPI_MADT_LOCAL_APIC, 8), Entry(ACPI_MADT_ISO, 12) >>],
    [length |-> SIZEOF_ACPI_MADT + 2,
     entries |-> << Entry(ACPI_MADT_IO_APIC, 12) >>],
    [length |-> SIZEOF_ACPI_MADT + 8,
     entries |-> << Entry(ACPI_MADT_LOCAL_APIC, 0), Entry(ACPI_MADT_IO_APIC, 12) >> ] }
OtherLengths == {SIZEOF_ACPI_HDR, PAGE_SIZE + 100, 60 * PAGE_SIZE}

FirmwareTables(addr) ==
  { [addr |-> addr, length |-> c.length, madt |-> TRUE, entries |-> c.entries] :
      c \in MadtContents }
  \cup { [addr |-> addr, length |-> l, madt |-> FALSE, entries |-> <<>>] :
           l \in OtherLengths }

NoBtable == [status |-> "off"]

InitAcpi ==
  /\ PagingOff
  /\ intr = IntrOff /\ spin = SpinOff
  /\ \E x \in BOOLEAN, r \in RootAddrs :
       acpi = [op |-> "firmware",
               F |-> [xsdt |-> x, root |-> r, tables |-> <<>>],
               B |-> NoBtable, call |-> <<>>]
  /\ pmap = [region |-> <<>>, last_usable |-> 0]
  /\ initialized = FALSE
  /\ fed = NotFed
  /\ ncalls = 0

\* the firmware has one more table, and the root table points to it
FirmwareTable ==
  /\ acpi.op = "firmware"
  /\ Len(acpi.F.tables) < MaxTables
  /\ \E a \in TableAddrs :
       /\ \A i \in 1 .. Len(acpi.F.tables) : acpi.F.tables[i].addr # a
       /\ \E T \in FirmwareTables(a) :
            acpi' = [acpi EXCEPT !.F.tables = Append(@, T)]
  /\ UNCHANGED <<pagingvars, pmapvars, intr, spin>>

RECURSIVE pmap_adds(_, _, _)
pmap_adds(M, init, adds) ==
  IF adds = <<>> THEN M
  ELSE pmap_adds(pmap_add(M, init, Head(adds).addr, Head(adds).size,
                          Head(adds).type), init, Tail(adds))

\* acpi_init()
AcpiInit ==
  /\ acpi.op = "firmware"
  /\ \E B \in {acpi_init(acpi.F)} :
       /\ acpi' = [acpi EXCEPT !.op = "acpi_init", !.B = B]
       /\ pmap' = pmap_adds(pmap, initialized, B.adds)
       /\ status' = IF B.status \in {"fatal", "pagefault"} THEN B.status ELSE status
  /\ UNCHANGED <<pfdb, mem, pt, active_pt, cr3, hist, live, misuse, pair, nops,
                 initialized, fed, ncalls, intr, spin>>

\* acpi_next_local_apic, acpi_next_io_apic, acpi_next_iso: called with NULL,
\* and then with the entry the call before returned until that is NULL
MadtFind ==
  /\ acpi.op \in {"acpi_init", "madt_find"}
  /\ acpi.B.status = "ok"
  /\ \E type \in {ACPI_MADT_LOCAL_APIC, ACPI_MADT_IO_APIC, ACPI_MADT_ISO} :
       /\ acpi.op = "madt_find" =>
            /\ acpi.B.ret # 0
            /\ acpi.call[Len(acpi.call)].type = type
       /\ LET prev == IF acpi.op = "madt_find" THEN acpi.B.ret ELSE 0
          IN  acpi' = [acpi EXCEPT !.op = "madt_find",
                                   !.B = madt_find(acpi.B, type, prev),
                                   !.call = Append(@, [type |-> type, prev |-> prev])]
  /\ UNCHANGED <<pagingvars, pmapvars, intr, spin>>

NextAcpi == FirmwareTable \/ AcpiInit \/ MadtFind

SpecAcpi == InitAcpi /\ [][NextAcpi]_vars

\* ------------------------------------------------------ spinlock at work
MaxCpus == 3     \* CPUs that use one lock word

Cpus == 1 .. MaxCpus

InitSpin ==
  /\ PagingOff
  /\ intr = IntrOff /\ acpi = AcpiOff
  /\ spin = [op |-> "spin", lock |-> 0,
             pc |-> [c \in Cpus |-> "out"],
             rax |-> [c \in Cpus |-> 0],
             preempt |-> [c \in Cpus |-> 0]]
  /\ pmap = [region |-> <<>>, last_usable |-> 0]
  /\ initialized = FALSE
  /\ fed = NotFed
  /\ ncalls = 0

\* CPU c calls spin_lock(&lock)
SpinLock ==
  /\ \E c \in Cpus :
       /\ spin.pc[c] = "out"
       /\ spin' = spin_lock(spin, c)
  /\ UNCHANGED <<pagingvars, pmapvars, intr, acpi>>

SpinLockRetry ==
  /\ \E c \in Cpus :
       /\ spin.pc[c] = "retry"
       /\ spin' = spin_lock_retry(spin, c)
  /\ UNCHANGED <<pagingvars, pmapvars, intr, acpi>>

SpinLockXchg ==
  /\ \E c \in Cpus :
       /\ spin.pc[c] = "xchg"
       /\ spin' = spin_lock_xchg(spin, c)
  /\ UNCHANGED <<pagingvars, pmapvars, intr, acpi>>

\* CPU c calls spin_try_lock(&lock)
SpinTryLock ==
  /\ \E c \in Cpus :
       /\ spin.pc[c] = "out"
       /\ spin' = spin_try_lock(spin, c)
  /\ UNCHANGED <<pagingvars, pmapvars, intr, acpi>>

\* the CPU that has the lock calls spin_unlock(&lock)
SpinUnlock ==
  /\ \E c \in Cpus :
       /\ spin.pc[c] = "acquired"
       /\ spin' = spin_unlock(spin, c)
  /\ UNCHANGED <<pagingvars, pmapvars, intr, acpi>>

NextSpin == SpinLock \/ SpinLockRetry \/ SpinLockXchg \/ SpinTryLock \/ SpinUnlock

SpecSpin == InitSpin /\ [][NextSpin]_vars

\* ------------------------------------------------ interrupts at work
MaxHandlers == 2                \* isr_set calls made
SetVectors  == {0, Exception_GP, Exception_PF, 32, 128, FATAL_VECTOR}
ISRs        == {ISR_RETURNS, ISR_HALTS}
ErrorCodes  == {0, 4}

InitIntr ==
  /\ PagingOff
  /\ pmap = [region |-> <<>>, last_usable |-> 0]
  /\ initialized = FALSE
  /\ fed = NotFed
  /\ ncalls = 0
  /\ BootOff

\* interrupts_init()
InterruptsInit ==
  /\ ~intr.loaded
  /\ intr' = [interrupts_init(intr) EXCEPT !.op = "interrupts_init"]
  /\ UNCHANGED <<pagingvars, pmapvars, acpi, spin>>

\* isr_set(interrupt, handler)
IsrSet ==
  /\ intr.loaded
  /\ intr.nsets < MaxHandlers
  /\ intr.cpu.state = "running"
  /\ \E v \in SetVectors, h \in ISRs :
       intr' = [isr_set(intr, v, h) EXCEPT !.op = "isr_set", !.v = v,
                                           !.nsets = @ + 1]
  /\ UNCHANGED <<pagingvars, pmapvars, acpi, spin>>

\* an interrupt or exception of vector v arrives while CPU0 runs
Raise ==
  /\ intr.loaded
  /\ intr.cpu.state = "running"
  /\ \E v \in Vectors, e \in ErrorCodes :
       /\ v \notin PushesError => e = 0
       /\ intr' = [intr EXCEPT !.op = "raise", !.v = v, !.e = e,
                     !.cpu = deliver(intr, CPU0, v, v \in PushesError, e)]
  /\ UNCHANGED <<pagingvars, pmapvars, acpi, spin>>

\* kernel code calls fatal()
Fatal ==
  /\ intr.loaded
  /\ intr.cpu.state = "running"
  /\ intr' = [intr EXCEPT !.op = "fatal", !.v = FATAL_VECTOR, !.e = 0,
                          !.cpu = fatal_call(intr, CPU0)]
  /\ UNCHANGED <<pagingvars, pmapvars, acpi, spin>>

NextIntr == InterruptsInit \/ IsrSet \/ Raise \/ Fatal

SpecIntr == InitIntr /\ [][NextIntr]_vars

\* ------------------------------------------------------ the PICs at work
IRQs == 0 .. 15

\* .setupPIC has masked every line of both PICs
InitPic ==
  /\ PagingOff
  /\ pmap = [region |-> <<>>, last_usable |-> 0]
  /\ initialized = FALSE
  /\ fed = NotFed
  /\ ncalls = 0
  /\ acpi = AcpiOff
  /\ spin = SpinOff
  /\ intr = [op |-> "setupPIC", n |-> 0, rdi |-> 0, rcx |-> 0,
             edx |-> mov_edx_1, al |-> 255, master |-> 255, slave |-> 255,
             was |-> [master |-> 255, slave |-> 255]]

\* irq_enable(n)
IrqEnable ==
  /\ \E n \in IRQs :
       intr' = [irq_enable([intr EXCEPT !.rdi = n])
                  EXCEPT !.op = "irq_enable", !.n = n,
                         !.was = [master |-> intr.master,
                                  slave |-> intr.slave]]
  /\ UNCHANGED <<pagingvars, pmapvars, acpi, spin>>

\* irq_disable(n)
IrqDisable ==
  /\ \E n \in IRQs :
       intr' = [irq_disable([intr EXCEPT !.rdi = n])
                  EXCEPT !.op = "irq_disable", !.n = n,
                         !.was = [master |-> intr.master,
                                  slave |-> intr.slave]]
  /\ UNCHANGED <<pagingvars, pmapvars, acpi, spin>>

NextPic == IrqEnable \/ IrqDisable

SpecPic == InitPic /\ [][NextPic]_vars

\* --------------------------------------------------- isr_set at work
\* Vectors of maskable interrupts that arrive while the kernel runs.
IrqVectors == {32, 128}
NoIrq == [at |-> "none", v |-> 0, called |-> QZero, state |-> "none"]

\* interrupts_init has run; no handler is set; interrupts are enabled
InitIsr ==
  /\ PagingOff
  /\ pmap = [region |-> <<>>, last_usable |-> 0]
  /\ initialized = FALSE
  /\ fed = NotFed
  /\ ncalls = 0
  /\ acpi = AcpiOff
  /\ spin = SpinOff
  /\ \E I \in {interrupts_init(IntrOff)} :
       intr = [loaded |-> I.loaded, thunk |-> I.thunk, idt |-> I.idt,
               isr_table |-> I.isr_table, cpu |-> CPU0, op |-> "interrupts_init",
               v |-> 0, h |-> 0, nsets |-> 0, nirq |-> 0,
               pc |-> "out", iflag |-> TRUE, iflag0 |-> TRUE,
               table0 |-> I.isr_table, irq |-> NoIrq]

IsrRuns == intr.cpu.state = "running"

\* the kernel calls isr_set(v, h): "call" pushes the return address
IsrSetCall ==
  /\ IsrRuns /\ intr.pc = "out"
  /\ intr.nsets < MaxHandlers
  /\ \E v \in SetVectors, h \in ISRs :
       intr' = [intr EXCEPT !.op = "isr_set", !.v = v, !.h = h,
                            !.nsets = @ + 1,
                            !.cpu = push([@ EXCEPT !.regs["rdi"] = v,
                                                   !.regs["rsi"] = h],
                                         intr.cpu.rip),
                            !.pc = "pushf", !.iflag0 = intr.iflag,
                            !.table0 = intr.isr_table, !.irq = NoIrq]
  /\ UNCHANGED <<pagingvars, pmapvars, acpi, spin>>

IsrSetStep(pc, I) ==
  /\ IsrRuns /\ intr.pc = pc
  /\ intr' = I
  /\ UNCHANGED <<pagingvars, pmapvars, acpi, spin>>

IsrSetPushf == IsrSetStep("pushf", isr_set_pushf(intr))
IsrSetCli   == IsrSetStep("cli", isr_set_cli(intr))
IsrSetShl   == IsrSetStep("shl", isr_set_shl(intr))
IsrSetAdd   == IsrSetStep("add", isr_set_add(intr))
IsrSetMov   == IsrSetStep("mov", isr_set_mov(intr))
IsrSetPopf  == IsrSetStep("popf", isr_set_popf(intr))
IsrSetRet   == IsrSetStep("ret", isr_set_ret(intr))

\* the kernel, outside isr_set, runs "cli" or "sti"
KernelCliSti ==
  /\ IsrRuns /\ intr.pc = "out" /\ intr.nsets < MaxHandlers
  /\ intr' = [intr EXCEPT !.iflag = ~@, !.op = "cli_sti"]
  /\ UNCHANGED <<pagingvars, pmapvars, acpi, spin>>

\* A maskable interrupt arrives between two instructions: the CPU takes it
\* when the interrupt flag is set, and iretq brings the interrupted code back with its
\* registers and flags.
Irq ==
  /\ IsrRuns /\ intr.iflag
  /\ intr.nirq < MaxHandlers
  /\ \E v \in IrqVectors :
       \E C \in {deliver(intr, intr.cpu, v, FALSE, 0)} :
         intr' = [intr EXCEPT
                    !.nirq = @ + 1,
                    !.irq = [at |-> intr.pc, v |-> v,
                             called |-> IF C.calls = << >> THEN QZero
                                        ELSE C.calls[Len(C.calls)].isr,
                             state |-> C.state],
                    !.cpu = IF C.state = "resumed"
                              THEN [C EXCEPT !.state = "running",
                                             !.calls = << >>,
                                             !.via = "none"]
                              ELSE C]
  /\ UNCHANGED <<pagingvars, pmapvars, acpi, spin>>

NextIsr == IsrSetCall \/ IsrSetPushf \/ IsrSetCli \/ IsrSetShl \/ IsrSetAdd
             \/ IsrSetMov \/ IsrSetPopf \/ IsrSetRet \/ KernelCliSti \/ Irq

SpecIsr == InitIsr /\ [][NextIsr]_vars

\* ----------------------------------------------------- derived notions
\* Frames reached from f by following dir ("next" or "prev") until
\* PFN_INVALID; the walk gives up after fuel steps (a cycle) or when it
\* leaves the array.  Result: [set, len, ok].
RECURSIVE Chain(_, _, _, _)
Chain(p, f, dir, fuel) ==
  IF f = PFN_INVALID THEN [set |-> {}, len |-> 0, ok |-> TRUE]
  ELSE IF fuel = 0 \/ f \notin Frames THEN [set |-> {}, len |-> 0, ok |-> FALSE]
  ELSE LET r == Chain(p, IF dir = "next" THEN p[f].next ELSE p[f].prev,
                      dir, fuel - 1)
       IN  [set |-> r.set \cup {f}, len |-> r.len + 1, ok |-> r.ok]

FromHead == Chain(pfdb.pf, pfdb.head, "next", NFrames)
FromTail == Chain(pfdb.pf, pfdb.tail, "prev", NFrames)
FreeList == FromHead.set

\* The frame a live page is mapped to, -1 when it is not mapped.
FrameOfLive(x) ==
  LET e == LeafOf(pt[x[1]].proot, x[2])
  IN  IF HasFlag(e, PF_PRESENT) THEN PADDR_TO_PF(PGPTR(e)) ELSE -1

\* Page-table pages of the address space of handle h: its root and the
\* tables below entries that do not carry PF_SYSTEM.
Children(tbls) ==
  { PGPTR(EntryAt(t, i)) : <<t, i>> \in
      { x \in tbls \X Index : /\ EntryAt(x[1], x[2]) # 0
                              /\ ~HasFlag(EntryAt(x[1], x[2]), PF_SYSTEM) } }

TablePages(h) ==
  LET l4 == {pt[h].proot}
      l3 == Children(l4)
      l2 == Children(l3)
      l1 == Children(l2)
  IN  l4 \cup l3 \cup l2 \cup l1

\* The page tables kmem_init built, as they are now and as it left them.
PoolFrames   == { f \in Frames : /\ PF_TO_PADDR(f) >= KMEM_KERNEL_PAGETABLE
                                 /\ PF_TO_PADDR(f) < KMEM_KERNEL_PAGETABLE_END }
KernelTables == [f \in PoolFrames |-> mem[f]]


\* ---------------------------------------------------------------- claims
\* The claims speak of the states between two kernel calls of a kernel
\* that has not stopped.
Running == status = "ok"

\* C1: in every state reached after page_init by any sequence of paging
\* calls, pfdb.avail equals the number of frames reached from pfdb.head by
\* following next until INVALID, and the number reached from pfdb.tail by
\* following prev until INVALID.
C1_AvailIsListLength ==
  Running => /\ FromHead.ok /\ pfdb.avail = FromHead.len
             /\ FromTail.ok /\ pfdb.avail = FromTail.len

\* C2: after N >= 1 pairs of pfalloc followed by pffree of the frame just
\* allocated, pfdb.avail has the value it had before the first pair.
C2_PairsRestoreAvail ==
  (Running /\ pair.n >= 1 /\ ~pair.open) => pfdb.avail = pair.avail0

\* C3: a frame record is Available exactly when it is on the free list, the
\* prev and next of an Available frame are Available frames or INVALID, an
\* Allocated frame is not on the free list and has refcount >= 1, and a
\* frame page_init left Reserved is never Available.
LinkOk(l) ==
  l = PFN_INVALID \/ (l \in Frames /\ pfdb.pf[l].type = PFTYPE_AVAILABLE)

C4_LiveFramesExclusive ==
  (Running /\ ~misuse) =>
    /\ LET list == FreeList
       IN  \A x \in live : FrameOfLive(x) \notin list
    /\ \A x, y \in live :
         (x # y /\ FrameOfLive(x) # -1) => FrameOfLive(x) # FrameOfLive(y)

\* C5: when the free list is empty, the next call that allocates a frame
\* (page_alloc, pagetable_create) reaches fatal and changes no frame record.
C5_EmptyListIsFatal ==
  (hist.head0 = PFN_INVALID /\ hist.op \in {"page_alloc", "pagetable_create"})
    => (status = "fatal" /\ hist.pf_same)

OutsideWindow(h, v, n) ==
  v + n * PAGE_SIZE <= pt[h].vroot \/ v >= pt[h].vterm

C7_WindowIsSelfMapped ==
  Running =>
    \A h \in UserHandles :
      pt[h].proot # 0 =>
        \A v \in PagesOf(pt[h].vroot, pt[h].vnext) :
          /\ HasFlag(LeafOf(pt[h].proot, v), PF_PRESENT)
          /\ PGPTR(LeafOf(pt[h].proot, v)) \in TablePages(h)

\* C8: vroot <= vnext <= vterm for the kernel table and for every table
\* made by pagetable_create, in every state reached by paging calls.
C8_WindowOrdered ==
  Running =>
    \A h \in Handles :
      pt[h].vroot <= pt[h].vnext /\ pt[h].vnext <= pt[h].vterm

\* C9: a page_alloc whose table walk traverses an entry carrying PF_SYSTEM,
\* at any level, reaches fatal and writes no entry below that entry.
C9_SystemEntryIsFatal ==
  (hist.op = "page_alloc" /\ hist.sys_hit)
    => (status = "fatal" /\ ~hist.sys_write)

\* C10: page_free and pagetable_destroy leave the page tables built by
\* kmem_init, which every address space inherits, as they are.
C10_KernelMappingsIntact ==
  [][hist'.op \in {"page_free", "pagetable_destroy"}
       => KernelTables' = KernelTables]_vars

\* C11: page_alloc(pt, v, n) on pages that are not yet mapped, the kernel
\* table kpt with v in a PML4 slot it does not use included, completes
\* without fatal, returns v, raises the number of Allocated frames by n plus
\* the interior tables it created, and leaves each of the n pages mapped to
\* a distinct zero-filled frame.
C11_PageAllocMapsFreshPages ==
  (hist.op = "page_alloc" /\ hist.unmapped0 /\ pt[hist.h].proot # 0) =>
    LET pages == {hist.vaddr + i * PAGE_SIZE : i \in 0 .. hist.count - 1}
        fr(v) == LET e == LeafOf(pt[hist.h].proot, v)
                 IN  IF HasFlag(e, PF_PRESENT) /\ Mapped(PGPTR(e))
                       THEN PADDR_TO_PF(PGPTR(e)) ELSE -1
    IN  /\ status = "ok"
        /\ hist.ret = hist.vaddr
        /\ NumType(pfdb.pf, PFTYPE_ALLOCATED)
             = hist.allocated0 + hist.count + hist.ninterior
        /\ \A v \in pages : fr(v) # -1 /\ mem[fr(v)] = ZeroPage
        /\ \A v, w \in pages : v # w => fr(v) # fr(w)

\* ------------------------------------------------- claims on the memory map
Normalized == fed # NotFed
End(r) == r.addr + r.size
Pairs(regs) == 1 .. Len(regs) - 1

\* Records of regs that hold byte b, and the highest type among them.
Covering(regs, b) ==
  {i \in 1 .. Len(regs) : regs[i].addr <= b /\ b < End(regs[i])}
TopType(regs, b) ==
  CHOOSE t \in {regs[i].type : i \in Covering(regs, b)} :
    \A i \in Covering(regs, b) : regs[i].type <= t

\* Every run of bytes with the same covering records, in the input or in the
\* output, starts at one of these addresses.
Starts ==
  {fed[i].addr : i \in 1 .. Len(fed)} \cup {End(fed[i]) : i \in 1 .. Len(fed)}
    \cup {pmap.region[i].addr : i \in 1 .. Len(pmap.region)}
    \cup {End(pmap.region[i]) : i \in 1 .. Len(pmap.region)}

\* C12: after pmap_init and after every pmap_add made once the map is
\* initialized, the region addresses are strictly increasing and no region
\* reaches past the start of the next one.
C12_RegionsIncreasing ==
  (initialized /\ Normalized) =>
    \A i \in Pairs(pmap.region) :
      /\ pmap.region[i].addr < pmap.region[i + 1].addr
      /\ End(pmap.region[i]) <= pmap.region[i + 1].addr

\* C13: after normalize, every byte that an input region covered has the
\* highest-numbered type among the input regions covering it.
C13_HighestTypeWins ==
  Normalized =>
    \A b \in Starts :
      Covering(fed, b) # {} =>
        /\ Covering(pmap.region, b) # {}
        /\ \A i \in Covering(pmap.region, b) :
             pmap.region[i].type = TopType(fed, b)

\* C14: after normalize every region ends where the next one starts, and
\* every byte between the first start and the last end that no input region
\* covered is Reserved.
C14_NoGaps ==
  (Normalized /\ pmap.region # <<>>) =>
    /\ \A i \in Pairs(pmap.region) :
         End(pmap.region[i]) = pmap.region[i + 1].addr
    /\ \A b \in Starts :
         ( /\ pmap.region[1].addr <= b
           /\ b < End(pmap.region[Len(pmap.region)])
           /\ Covering(fed, b) = {} ) =>
           /\ Covering(pmap.region, b) # {}
           /\ \A i \in Covering(pmap.region, b) :
                pmap.region[i].type = PMEMTYPE_RESERVED

\* C15: after normalize no two adjacent regions have the same type.
C15_NeighborsDiffer ==
  Normalized =>
    \A i \in Pairs(pmap.region) :
      pmap.region[i].type # pmap.region[i + 1].type

\* normalize was given two regions of one type that touch, with nothing
\* else on them, and merged them
C15_Witness ==
  /\ Normalized /\ Len(fed) = 3 /\ Len(pmap.region) = 2
  /\ \E i, j \in 1 .. Len(fed) :
       /\ fed[i].type = fed[j].type /\ fed[i].size > 0 /\ fed[j].size > 0
       /\ End(fed[i]) = fed[j].addr
       /\ pmap.region[1] = Region(fed[i].addr, fed[i].size + fed[j].size,
                                   fed[i].type)

\* C16: after normalize, last_usable is the largest end of a Usable region
\* of the map, 0 when there is none.
C16_LastUsableIsLargestEnd ==
  Normalized =>
    LET ends == {End(pmap.region[i]) :
                   i \in {j \in 1 .. Len(pmap.region) :
                            pmap.region[j].type = PMEMTYPE_USABLE}}
    IN  pmap.last_usable =
          IF ends = {} THEN 0 ELSE CHOOSE e \in ends : \A x \in ends : x <= e

\* C17: normalize applied to a normalized map changes nothing.
C17_NormalizeIdempotent ==
  Normalized => normalize(pmap.region) = pmap

\* C18: normalize of the example BIOS map gives back its five regions, with
\* last_usable 0x7FE0000.
C18_ExampleUnchanged ==
  (Normalized /\ fed = BiosExample) =>
    pmap = [region |-> BiosExample, last_usable |-> 134086656]

\* C18, amended: the two Reserved regions that touch come out as one, so
\* the map has four regions.
C18_ExampleMerged ==
  (Normalized /\ fed = BiosExample) =>
    pmap = [region |-> << Region(0, 653312, PMEMTYPE_USABLE),
                          Region(653312, 395264, PMEMTYPE_RESERVED),
                          Region(1048576, 133038080, PMEMTYPE_USABLE),
                          Region(134086656, 131072, PMEMTYPE_ACPI_NVS) >>,
            last_usable |-> 134086656]

\* normalize has run on the example
C18_Witness == Normalized /\ fed = BiosExample /\ Len(pmap.region) = 4

\* ------------------------------------------- claims on the kernel table
\* kmem_init has run to its end.
KmemDone == hist.op = "kmem_init" /\ status = "ok"

\* The leaf the MMU reaches for address a through the kernel page table:
\* its entry and the size of the page it maps (entry 0 when a is not mapped).
KernelLeaf(a) ==
  LET e4 == mem[PADDR_TO_PF(pt["kpt"].proot)][PML4E(a)]
      e3 == IF HasFlag(e4, PF_PRESENT)
              THEN mem[PADDR_TO_PF(PGPTR(e4))][PDPTE(a)] ELSE 0
      e2 == IF HasFlag(e3, PF_PRESENT) /\ ~HasFlag(e3, PF_PS)
              THEN mem[PADDR_TO_PF(PGPTR(e3))][PDE(a)] ELSE 0
      e1 == IF HasFlag(e2, PF_PRESENT) /\ ~HasFlag(e2, PF_PS)
              THEN mem[PADDR_TO_PF(PGPTR(e2))][PTE(a)] ELSE 0
  IN  IF HasFlag(e3, PF_PRESENT) /\ HasFlag(e3, PF_PS)
        THEN [entry |-> e3, span |-> PAGE_SIZE_HUGE]
      ELSE IF HasFlag(e2, PF_PRESENT) /\ HasFlag(e2, PF_PS)
        THEN [entry |-> e2, span |-> PAGE_SIZE_LARGE]
      ELSE IF HasFlag(e1, PF_PRESENT)
        THEN [entry |-> e1, span |-> PAGE_SIZE]
      ELSE [entry |-> 0, span |-> PAGE_SIZE]

\* the bytes of region r, one for each stretch that shares page and region
BytesOf(r) == {r.addr + k * Grain : k \in 0 .. (r.size \div Grain) - 1}

IdentityMapped(a) ==
  LET l == KernelLeaf(a)
  IN  /\ HasFlag(l.entry, PF_PRESENT)
      /\ (l.entry \div l.span) * l.span = (a \div l.span) * l.span

CachedKernelLeaf(a) ==
  LET l == KernelLeaf(a)
  IN  /\ HasFlag(l.entry, PF_RW)
      /\ HasFlag(l.entry, PF_GLOBAL)
      /\ HasFlag(l.entry, PF_SYSTEM)
      /\ (l.span # PAGE_SIZE) = HasFlag(l.entry, PF_PS)
      /\ ~HasFlag(l.entry, PF_PWT)
      /\ ~HasFlag(l.entry, PF_PCD)

\* C19: after kmem_init every byte of every Usable region of the memory map
\* is identity-mapped by the kernel table through a leaf that is Present,
\* RW, Global and System (PS on a large or huge leaf), without PWT and PCD.
C19_UsableIdentityMapped ==
  KmemDone =>
    \A i \in 1 .. Len(pmap.region) :
      pmap.region[i].type = PMEMTYPE_USABLE =>
        \A b \in BytesOf(pmap.region[i]) :
          IdentityMapped(b) /\ CachedKernelLeaf(b)

\* C20: after kmem_init no leaf of the kernel table maps a byte of a Bad or
\* Unmapped region, nor a byte of a Reserved region that starts at or beyond
\* last_usable.
C20_BadNotMapped ==
  KmemDone =>
    \A i \in 1 .. Len(pmap.region) :
      LET r == pmap.region[i]
      IN  (\/ r.type \in {PMEMTYPE_BAD, PMEMTYPE_UNMAPPED}
           \/ r.type = PMEMTYPE_RESERVED /\ r.addr >= pmap.last_usable)
          => \A b \in BytesOf(r) : ~HasFlag(KernelLeaf(b).entry, PF_PRESENT)

\* ------------------------------------------------- claims on interrupts
Raised(v) == intr.op = "raise" /\ intr.v = v

\* C21: after interrupts_init a raise of vector v whose isr_table[v] is not
\* null calls isr_table[v] exactly once with context.interrupt = v, and when
\* the handler returns the interrupted code resumes with its general-purpose
\* registers (the stack pointer included) as they were.
C21_RaiseCallsHandlerOnce ==
  \A v \in Vectors :
    (Raised(v) /\ intr.isr_table[v] # QZero) =>
      /\ Len(intr.cpu.calls) = 1
      /\ intr.cpu.calls[1].isr = intr.isr_table[v]
      /\ intr.cpu.calls[1].context.interrupt = v
      /\ intr.isr_table[v] = QW(ISR_RETURNS) =>
           /\ intr.cpu.state = "resumed"
           /\ intr.cpu.regs = Regs0
           /\ intr.cpu.rsp = CPU0.rsp

\* C22: an exception of vector 0x08, 0x0A..0x0E raised with error code e goes
\* through the special dispatcher, its handler sees context.interrupt = v and
\* context.error = e, and after iretq RSP (and the code address) is what it
\* was before the exception.
C22_ErrorCodeExceptions ==
  \A v \in PushesError :
    Raised(v) =>
      /\ intr.cpu.via = "special"
      /\ \A i \in 1 .. Len(intr.cpu.calls) :
           /\ intr.cpu.calls[i].context.interrupt = v
           /\ intr.cpu.calls[i].context.error = intr.e
      /\ intr.cpu.state # "wild"
      /\ intr.cpu.state = "resumed" =>
           /\ intr.cpu.rsp = CPU0.rsp
           /\ intr.cpu.stack = CPU0.stack
           /\ intr.cpu.rip = CPU0.rip
           /\ intr.cpu.regs = Regs0

C22_Witness ==
  /\ Raised(Exception_PF)
  /\ intr.e = 4
  /\ Len(intr.cpu.calls) = 1
  /\ intr.cpu.calls[1].context.error = 4
  /\ intr.cpu.state = "resumed"

\* C23: after interrupts_init the IDT descriptor of every vector v points
\* into the thunk of v and of no other vector, that thunk pushes v, and its
\* jmp goes to the special dispatcher exactly for 0x08, 0x0A..0x0E and to
\* the common dispatcher otherwise.
C23_ThunksAndDescriptors ==
  intr.loaded =>
    \A v \in Vectors :
      LET d == intr.idt[v]
          entry == d.OffsetLo + 65536 * d.OffsetMid
          target == Mem_ISR_Thunks + ISR_Thunk_Size * (v + 1)
                    + intr.thunk[v].rel
      IN  /\ entry >= Mem_ISR_Thunks + ISR_Thunk_Size * v
          /\ entry < Mem_ISR_Thunks + ISR_Thunk_Size * (v + 1)
          /\ d.OffsetHi = 0
          /\ intr.thunk[v].push = OP_PUSH
          /\ SignExtend8(intr.thunk[v].imm) = v
          /\ intr.thunk[v].jmp = OP_JMP
          /\ target = IF v \in {8, 10, 11, 12, 13, 14}
                        THEN ISR_Dispatcher_Special ELSE ISR_Dispatcher

\* C24: once fatal is called, with the halting ISR installed on vector 0xFF,
\* control never returns to the caller of fatal.
C24_FatalNeverReturns ==
  (intr.op = "fatal" /\ intr.isr_table[FATAL_VECTOR] = QW(ISR_HALTS))
    => intr.cpu.state = "halted"

\* C25: during bring-up pmap_init has completed before acpi_init makes any
\* pmap_add and before page_init reads the map: no pmap_add of acpi_init
\* appends to a map that is not normalized, and no reader sees one.
C25_InitBeforeAcpiAndReaders ==
  acpi.op = "kmain" => (acpi.early = 0 /\ (acpi.seen.read => acpi.seen.initialized))

\* C25 as the code has it: every pmap_add of acpi_init runs before pmap_init
\* and only appends its record to the table; pmap_init has normalized the
\* table, those records included, before page_init reads it.
C25_AcpiAppendsThenInitThenReaders ==
  acpi.op = "kmain" =>
    /\ acpi.early = acpi.nadds
    /\ acpi.appended
    /\ acpi.seen.read =>
         /\ acpi.seen.initialized
         /\ acpi.seen.map = pmap
         /\ \A i \in Pairs(acpi.seen.map.region) :
              /\ acpi.seen.map.region[i].addr < acpi.seen.map.region[i + 1].addr
              /\ End(acpi.seen.map.region[i]) = acpi.seen.map.region[i + 1].addr

\* acpi_init added a region, pmap_init ran, and page_init read the map
C25_Witness ==
  /\ acpi.op = "kmain" /\ acpi.nadds > 0 /\ acpi.seen.read
  /\ \E i \in 1 .. Len(acpi.seen.map.region) :
       acpi.seen.map.region[i].type = PMEMTYPE_ACPI

\* acpi_init has run on the tables of the firmware
AcpiRan == acpi.op \in {"acpi_init", "madt_find"}
NoDuplicates(q) == \A i, j \in 1 .. Len(q) : q[i] = q[j] => i = j

\* C26: acpi_init takes every new page of the boot page table from the
\* pool [KMEM_BOOT_PAGETABLE_LOADED, KMEM_BOOT_PAGETABLE_END): a pool page is
\* handed out at most once and is zero when it is linked, next_page never
\* exceeds term_page, and a request on the exhausted pool reaches fatal
\* without linking a page.
C26_PoolPages ==
  AcpiRan =>
    /\ NoDuplicates(acpi.B.handed)
    /\ \A i \in 1 .. Len(acpi.B.handed) :
         /\ KMEM_BOOT_PAGETABLE_LOADED <= acpi.B.handed[i]
         /\ acpi.B.handed[i] < KMEM_BOOT_PAGETABLE_END
         /\ acpi.B.handed[i] % PAGE_SIZE = 0
    /\ Len(acpi.B.linked) = Len(acpi.B.handed)
    /\ \A i \in 1 .. Len(acpi.B.linked) :
         acpi.B.linked[i].zero /\ acpi.B.linked[i].page = acpi.B.handed[i]
    /\ acpi.B.next_page <= acpi.B.term_page
    /\ acpi.B.next_page = KMEM_BOOT_PAGETABLE_LOADED + PAGE_SIZE * Len(acpi.B.handed)
    /\ \A f \in BootFrames :
         (f >= PADDR_TO_PF(acpi.B.next_page) /\ f < PADDR_TO_PF(acpi.B.term_page))
           => acpi.B.mem[f] = ZeroPage

\* the pool ran out while acpi_init mapped a table: it reached fatal with
\* every pool page handed out once
C26_Witness ==
  /\ AcpiRan /\ acpi.B.status = "fatal"
  /\ acpi.B.next_page = acpi.B.term_page
  /\ Len(acpi.B.handed) = PADDR_TO_PF(KMEM_BOOT_PAGETABLE_END - KMEM_BOOT_PAGETABLE_LOADED)

\* Pages that overlap [addr, addr + length)
PagesOver(addr, length) ==
  {p \in PAGE_ALIGN_DOWN(addr) .. (addr + length - 1) : p % PAGE_SIZE = 0}

TableMapped(addr, length) ==
  \A p \in PagesOver(addr, length) : Translates(acpi.B.mem, acpi.B.root, p)

\* C27: acpi_init reads no byte of an ACPI table (header, pointer array of
\* the root table, MADT entries) from a page that the boot page table does
\* not map at the time of the read, and when it returns every page that
\* overlaps the root table or a table the root points to is mapped.
C27_ReadsOnlyMapped ==
  acpi.op = "acpi_init" =>
    /\ acpi.B.status # "pagefault"
    /\ acpi.B.status = "ok" =>
         /\ TableMapped(acpi.F.root, RootLength(acpi.F))
         /\ \A i \in 1 .. Len(acpi.F.tables) :
              TableMapped(acpi.F.tables[i].addr, acpi.F.tables[i].length)

\* C27 for firmware whose MADT entries all lie inside hdr.length
ReadsOnlyMappedWellFormed ==
  (acpi.op = "acpi_init" /\ acpi.B.madt.length # SIZEOF_ACPI_MADT + 2) =>
    C27_ReadsOnlyMapped

\* The last call of madt_find came to an entry that starts inside the MADT
\* and ends past hdr.length, without finding an entry of its type before it.
WalkOvershot ==
  /\ acpi.op = "madt_find"
  /\ LET M     == acpi.B.madt
         c     == acpi.call[Len(acpi.call)]
         start == IF c.prev = 0 THEN SIZEOF_ACPI_MADT
                  ELSE c.prev + MadtEntryAt(M, c.prev).length
     IN  \E i \in 1 .. Len(M.entries) :
           /\ EntryOffset(M, i) >= start
           /\ EntryOffset(M, i) < M.length
           /\ EntryOffset(M, i) + M.entries[i].length > M.length
           /\ \A j \in 1 .. i - 1 :
                EntryOffset(M, j) >= start =>
                  (M.entries[j].type # c.type /\ M.entries[j].length > 0)

\* C28: when the length of a MADT entry takes the walk of madt_find past the
\* end of the table, madt_find reaches fatal; it returns neither an entry
\* nor NULL.
C28_OvershootReachesFatal ==
  WalkOvershot => acpi.B.status = "fatal"

\* what madt_find does instead: it returns the entry that reaches past the
\* end when that has the type looked for, and NULL otherwise
OvershootReturns ==
  WalkOvershot =>
    /\ acpi.B.status = "ok"
    /\ acpi.B.ret = 0 \/ acpi.B.ret + MadtEntryAt(acpi.B.madt, acpi.B.ret).length
                           > acpi.B.madt.length

\* C29: when the table holds as many records as its memory can hold, a
\* further pmap_add, and the add_region calls of pmap_init, reach fatal and
\* write no record past the end of the table.
C29_FullTableReachesFatal ==
  (acpi.op = "kmain" /\ acpi.past) => status = "fatal"

\* CPUs that have the lock: spin_lock returned, or spin_try_lock returned 1,
\* and the CPU has not yet called spin_unlock
Holders == {c \in Cpus : spin.pc[c] = "acquired"}

\* C30: under every interleaving of spin_lock, spin_try_lock and spin_unlock
\* by several CPUs on one lock word, at most one CPU has the lock at a time,
\* and the lock word is set while a CPU has it.
C30_MutualExclusion ==
  spin.op = "spin" =>
    /\ Cardinality(Holders) <= 1
    /\ Holders # {} => spin.lock = 1
    /\ \A c \in Cpus : spin.pc[c] = "out" <=> spin.preempt[c] = 0

\* one CPU has the lock while another spins in spin_lock after its xchg
\* failed, and a third is outside
C30_Witness ==
  /\ spin.op = "spin"
  /\ \E c, d, e \in Cpus :
       /\ spin.pc[c] = "acquired"
       /\ spin.pc[d] = "retry" /\ spin.rax[d] = 1
       /\ spin.pc[e] = "out" /\ e # c /\ e # d

\* the mask m with bit i cleared
BitCleared(m, i) == m - Bit(m, i) * 2^i

\* C31: irq_enable(n) for n in 8..15 clears bit 2 of the master mask and
\* bit n-8 of the slave mask, so that line n is unmasked afterwards, and
\* changes no other bit of the two masks.
C31_SlaveLineUnmasked ==
  (intr.op = "irq_enable" /\ intr.n >= 8) =>
    /\ intr.master = BitCleared(intr.was.master, 2)
    /\ intr.slave = BitCleared(intr.was.slave, intr.n - 8)
    /\ Bit(intr.slave, intr.n - 8) = 0

\* irq_enable(n) for n in 8..15 clears bit 2 of the master mask and leaves
\* the slave mask as it was; for n < 8 it clears bit n of the master mask.
IrqEnableEffect ==
  intr.op = "irq_enable" =>
    /\ intr.slave = intr.was.slave
    /\ intr.master =
         BitCleared(intr.was.master, IF intr.n >= 8 THEN 2 ELSE intr.n)

\* irq_disable(n) sets bit n of the master or bit n-8 of the slave mask
IrqDisableEffect ==
  intr.op = "irq_disable" =>
    IF intr.n >= 8
      THEN /\ intr.master = intr.was.master
           /\ intr.slave = or(intr.was.slave, 2^(intr.n - 8))
      ELSE /\ intr.slave = intr.was.slave
           /\ intr.master = or(intr.was.master, 2^intr.n)

\* The pages of the window [vroot, vnext) of h whose PT leaf is Present and
\* points at the frame t.
SelfMappedAt(h, t) ==
  {v \in PagesOf(pt[h].vroot, pt[h].vnext) :
     /\ HasFlag(LeafOf(pt[h].proot, v), PF_PRESENT)
     /\ PGPTR(LeafOf(pt[h].proot, v)) = t}

\* C32: when page_alloc has returned, every interior table its add_pte
\* calls allocated for pt is the target of a Present leaf at some address
\* of [pt.vroot, pt.vnext), also when the self-mapping needed new tables.
C32_InteriorTablesSelfMapped ==
  (/\ hist.op = "page_alloc" /\ status = "ok"
   /\ OutsideWindow(hist.h, hist.vaddr, hist.count)) =>
    \A t \in hist.tables : SelfMappedAt(hist.h, t) # {}

\* C33: every call of add_pte returns or reaches fatal, and its recursion
\* depth never exceeds 3 (the call made by page_alloc has depth 1).
C33_RecursionDepthAtMostThree ==
  hist.op = "page_alloc" => hist.depth <= 3

\* C34: invlpg is issued for every virtual address whose leaf in the active
\* page table an operation has changed (remove_pte clearing it, add_pte
\* writing or overwriting it, pagetable_destroy freeing the table under
\* it), and never for a table that is not active.
C34_InvlpgForChangedMappings ==
  (status = "ok" /\ hist.op # "page_init") =>
    /\ hist.chg \subseteq hist.inv
    /\ hist.h # active_pt => hist.inv = {}

\* invlpg is issued by remove_pte for the address it clears and by
\* pagetable_destroy for the pages of [vroot, vterm), each only on the
\* active table; page_alloc issues none.
InvlpgIssued ==
  (status = "ok" /\ hist.op # "page_init") =>
    /\ hist.op = "page_free" =>
         hist.inv = IF hist.h = active_pt
                      THEN {hist.vaddr + i * PAGE_SIZE :
                              i \in 0 .. hist.count - 1}
                      ELSE {}
    /\ hist.op \in {"page_alloc", "pagetable_create",
                    "pagetable_activate"} => hist.inv = {}

PageInitDone == hist.op = "page_init" /\ status = "ok" /\ pfdb # <<>>

\* the frame f lies wholly inside a Usable region of the map
WhollyUsable(f) ==
  \E i \in 1 .. Len(pmap.region) :
    /\ pmap.region[i].type = PMEMTYPE_USABLE
    /\ pmap.region[i].addr <= f * PAGE_SIZE
    /\ (f + 1) * PAGE_SIZE <= pmap.region[i].addr + pmap.region[i].size

AvailableFrames ==
  {f \in DOMAIN pfdb.pf : pfdb.pf[f].type = PFTYPE_AVAILABLE}

\* the frames that hold the page frame database
PfdbFrames ==
  {f \in DOMAIN pfdb.pf : /\ f * PAGE_SIZE < hist.addr + hist.size
                          /\ (f + 1) * PAGE_SIZE > hist.addr}

\* C35: after page_init the Available frames are exactly the frames that
\* lie wholly inside Usable regions of the final memory map; the database
\* sits at a PAGE_SIZE_LARGE-aligned address in a Reserved region and none
\* of its frames is Available.
C35_FreeListIsUsableFrames ==
  PageInitDone =>
    /\ AvailableFrames = {f \in DOMAIN pfdb.pf : WhollyUsable(f)}
    /\ pfdb.avail = Cardinality(AvailableFrames)
    /\ hist.addr % PAGE_SIZE_LARGE = 0
    /\ PfdbFrames \cap AvailableFrames = {}

\* every boundary of the map lies on a page boundary
PageAlignedMap ==
  \A i \in 1 .. Len(pmap.region) :
    pmap.region[i].addr % PAGE_SIZE = 0 /\ pmap.region[i].size % PAGE_SIZE = 0

\* With a map whose boundaries are page-aligned, C35 holds.
FreeListIsUsableFramesAligned ==
  (PageInitDone /\ PageAlignedMap) =>
    /\ AvailableFrames = {f \in DOMAIN pfdb.pf : WhollyUsable(f)}
    /\ pfdb.avail = Cardinality(AvailableFrames)
    /\ hist.addr % PAGE_SIZE_LARGE = 0
    /\ PfdbFrames \cap AvailableFrames = {}

\* offsets of the entries of the given type that start below hdr.length, in
\* table order
OffsetsOfType(M, type) ==
  IF M = NoTable THEN << >>
  ELSE LET idx == SelectSeq([i \in 1 .. Len(M.entries) |-> i],
                            LAMBDA i : /\ M.entries[i].type = type
                                       /\ EntryOffset(M, i) < M.length)
       IN  [k \in 1 .. Len(idx) |-> EntryOffset(M, idx[k])]

\* what the calls of the iteration made so far have returned
Returned ==
  [k \in 1 .. Len(acpi.call) |->
     IF k < Len(acpi.call) THEN acpi.call[k + 1].prev ELSE acpi.B.ret]

IterationInOrder ==
  (acpi.op = "madt_find" /\ acpi.B.status = "ok") =>
    LET due == OffsetsOfType(acpi.B.madt, acpi.call[1].type) \o << 0 >>
    IN  /\ Len(Returned) <= Len(due)
        /\ \A k \in 1 .. Len(Returned) : Returned[k] = due[k]

\* C36: for every MADT content and entry type, the calls of acpi_next_*
\* with NULL and then with the previous result return each entry of the
\* type once, in table order, and then NULL; every call returns, and the
\* I/O APIC loop of acpi_init ends.
C36_IterationTerminates ==
  /\ acpi.op \in {"acpi_init", "madt_find"} => acpi.B.status # "hung"
  /\ IterationInOrder

HasEmptyEntry(M) ==
  M # NoTable /\ \E i \in 1 .. Len(M.entries) : M.entries[i].length = 0

\* The iteration is in order whenever the calls return, and a call does not
\* return only when the MADT has an entry of length 0.
IterationHangsOnEmptyEntry ==
  /\ IterationInOrder
  /\ (acpi.op \in {"acpi_init", "madt_find"} /\ acpi.B.status = "hung")
       => HasEmptyEntry(acpi.B.madt)

\* no interrupt was dispatched between the cli and the popf of isr_set
NoneInside == intr.irq.at \notin {"shl", "add", "mov", "popf"}

\* after the store, the table differs from the one before the call in the
\* entry of v only, which holds fn
OnlyEntryReplaced ==
  intr.pc \in {"popf", "ret"} =>
    intr.isr_table = [intr.table0 EXCEPT ![intr.v] = QW(intr.h)]

\* popf has brought the interrupt flag back to what it was before the call
FlagRestored == intr.pc = "ret" => intr.iflag = intr.iflag0

\* an interrupt on the vector being set, taken since the call, has called the
\* handler the entry held before the call or the one isr_set stores
OldOrNew ==
  (intr.irq.at # "none" /\ intr.irq.v = intr.v) =>
    intr.irq.called \in {intr.table0[intr.v], QW(intr.h)}

\* C37: isr_set(v, fn) replaces isr_table[v] by fn with interrupts disabled
\* from cli until popf: no interrupt is dispatched in between, an interrupt
\* on v sees the old or the new handler, no other entry changes, and the
\* interrupt flag is afterwards what it was before the call.
C37_IsrSetAtomic ==
  /\ NoneInside
  /\ OldOrNew
  /\ OnlyEntryReplaced
  /\ FlagRestored

\* The same for the vectors below 0x80, whose thunk pushes their number.
IsrSetAtomicLow ==
  /\ NoneInside
  /\ intr.irq.v < 128 => OldOrNew
  /\ OnlyEntryReplaced
  /\ FlagRestored

\* ------------------------------------------------ no empty region remains
NoEmptyRegion(regs) == \A i \in 1 .. Len(regs) : regs[i].size # 0

\* C38: after normalize no region of the map has size 0, for every input
\* list, also when an empty record sorts last or lies inside another region.
C38_NoEmptyRegion == Normalized => NoEmptyRegion(pmap.region)

\* An input without an empty record leaves no empty region.
NoEmptyRegionFromNonEmpty ==
  (Normalized /\ NoEmptyRegion(fed)) => NoEmptyRegion(pmap.region)

\* ------------------------------------------------ the life of a page table
LifeEnded == hist.op = "pagetable_destroy" /\ hist.life.done /\ status = "ok"

\* C39: after pagetable_create(pt), page_alloc and page_free calls on pt and
\* pagetable_destroy(pt), the number of Allocated frames is the one before
\* the pagetable_create.
C39_DestroyFreesAllFrames ==
  LifeEnded => NumType(pfdb.pf, PFTYPE_ALLOCATED) = hist.life.allocated0

\* The frame of the root table, at least, stays Allocated.
RootStaysAllocated ==
  LifeEnded => NumType(pfdb.pf, PFTYPE_ALLOCATED) > hist.life.allocated0

\* ------------------------------------------------- the active page table
ActiveRootLoaded ==
  pt[active_pt].proot # 0 /\ pt[active_pt].proot = cr3

\* C40: in every state after page_init the active page table has a root,
\* and that root is the value last written to CR3; also after
\* pagetable_destroy of the active page table.
C40_ActiveRootIsCr3 == status = "ok" => ActiveRootLoaded

\* pagetable_destroy of the active page table leaves CR3 on the freed root.
DestroyedActive ==
  hist.op = "pagetable_destroy" /\ hist.h = active_pt /\ status = "ok"

ActiveRootAfterDestroy == DestroyedActive => ActiveRootLoaded

\* Right after pagetable_activate the active page table has its root in CR3.
ActiveRootAfterActivate ==
  (status = "ok" /\ hist.op = "pagetable_activate") => ActiveRootLoaded

====
